---------------------------- MODULE Spec2Model ----------------------------
(***************************************************************************)
(* A model of the PIX payment codec (pixCodec.js): the CRC16 engine, the   *)
(* TLV field encoder and decoder, PixCodec.encode / decode /               *)
(* createPayment / validateKey, and the calls a client makes to them.      *)
(*                                                                         *)
(* A JavaScript string is a sequence of one-character strings.  A          *)
(* JavaScript value is a record tagged by its type (field t), so that      *)
(* undefined, null, numbers, strings, arrays and objects stay distinct.    *)
(***************************************************************************)
EXTENDS Integers, Sequences, FiniteSets, TLC

(***************************************************************************)
(* Characters.  ASCII[i] is the character with code unit 31 + i; the three *)
(* characters that cannot be written in a TLA+ string are named.           *)
(***************************************************************************)
ASCII ==
  << " ", "!", "QUOTE", "#", "$", "%", "&", "'", "(", ")", "*", "+", ",", "-", ".", "/",
     "0", "1", "2", "3", "4", "5", "6", "7", "8", "9", ":", ";", "<", "=", ">", "?",
     "@", "A", "B", "C", "D", "E", "F", "G", "H", "I", "J", "K", "L", "M", "N", "O",
     "P", "Q", "R", "S", "T", "U", "V", "W", "X", "Y", "Z", "[", "BACKSLASH", "]", "^", "_",
     "BACKTICK", "a", "b", "c", "d", "e", "f", "g", "h", "i", "j", "k", "l", "m", "n", "o",
     "p", "q", "r", "s", "t", "u", "v", "w", "x", "y", "z", "{", "|", "}", "~" >>

\* Characters beyond ASCII, named by their code unit: two of one byte
\* (U+00C3, U+00FF) and two of two bytes whose low byte is the code of an
\* ASCII character (U+0130 over "0", U+0141 over "A").
Beyond == <<"U+00C3", "U+00FF", "U+0130", "U+0141">>
BeyondCode == <<195, 255, 304, 321>>

Char == {ASCII[i] : i \in 1..Len(ASCII)} \cup {Beyond[i] : i \in 1..Len(Beyond)}

\* String.prototype.charCodeAt for one character.
charCodeAt ==
  [c \in Char |->
     IF \E i \in 1..Len(ASCII) : ASCII[i] = c
     THEN 31 + (CHOOSE i \in 1..Len(ASCII) : ASCII[i] = c)
     ELSE BeyondCode[CHOOSE i \in 1..Len(Beyond) : Beyond[i] = c]]

Digit == {"0", "1", "2", "3", "4", "5", "6", "7", "8", "9"}
DigitChars == <<"0", "1", "2", "3", "4", "5", "6", "7", "8", "9">>
HexChars == <<"0", "1", "2", "3", "4", "5", "6", "7", "8", "9", "a", "b", "c", "d", "e", "f">>
UpperHexDigit == {"0", "1", "2", "3", "4", "5", "6", "7", "8", "9", "A", "B", "C", "D", "E", "F"}
LowerLetters == <<"a", "b", "c", "d", "e", "f", "g", "h", "i", "j", "k", "l", "m", "n", "o", "p", "q", "r", "s", "t", "u", "v", "w", "x", "y", "z">>
UpperLetters == <<"A", "B", "C", "D", "E", "F", "G", "H", "I", "J", "K", "L", "M", "N", "O", "P", "Q", "R", "S", "T", "U", "V", "W", "X", "Y", "Z">>
WhiteSpace == {" "}

IndexOf(c, s) == CHOOSE i \in 1..Len(s) : s[i] = c
DigitValue(c) == IndexOf(c, DigitChars) - 1

\* String.prototype.toUpperCase on the ASCII range: a-z map to A-Z.
toUpperCaseChar(c) ==
  IF \E i \in 1..Len(LowerLetters) : LowerLetters[i] = c
  THEN UpperLetters[IndexOf(c, LowerLetters)]
  ELSE c
toUpperCase(s) == [i \in 1..Len(s) |-> toUpperCaseChar(s[i])]

Min(a, b) == IF a < b THEN a ELSE b
Max(a, b) == IF a > b THEN a ELSE b

(***************************************************************************)
(* JavaScript numbers as far as the codec needs them: an integer or NaN.   *)
(***************************************************************************)
NaN == [n |-> 0, nan |-> TRUE]
Int32(n) == [n |-> n, nan |-> FALSE]

\* a < b on numbers: false whenever either side is NaN.
NumLess(a, b) == ~a.nan /\ ~b.nan /\ a.n < b.n
NumAdd(a, b) == IF a.nan \/ b.nan THEN NaN ELSE Int32(a.n + b.n)

\* Number.prototype.toString (radix 10) of a non-negative integer.
RECURSIVE NatToString(_)
NatToString(n) ==
  IF n < 10 THEN <<DigitChars[n + 1]>>
  ELSE NatToString(n \div 10) \o <<DigitChars[(n % 10) + 1]>>

NumToString(x) ==
  IF x.nan THEN <<"N", "a", "N">>
  ELSE IF x.n < 0 THEN <<"-">> \o NatToString(-x.n)
  ELSE NatToString(x.n)

\* String.prototype.padStart(targetLength, "0").
RECURSIVE padStart(_, _)
padStart(s, targetLength) ==
  IF Len(s) >= targetLength THEN s ELSE padStart(<<"0">> \o s, targetLength)

\* String.prototype.substr(start, length): a negative start counts from the
\* end, a NaN start is 0, a NaN or non-positive length gives "".
substr(s, start, length) ==
  LET from == IF start.nan THEN 0
              ELSE IF start.n < 0 THEN Max(Len(s) + start.n, 0)
              ELSE Min(start.n, Len(s))
      count == IF length.nan THEN 0 ELSE Max(length.n, 0)
      to == Min(from + count, Len(s))
  IN SubSeq(s, from + 1, to)

\* String.prototype.slice(0, -4) and slice(-4).
sliceFront(s) == SubSeq(s, 1, Max(Len(s) - 4, 0))
sliceLast4(s) == SubSeq(s, Max(Len(s) - 4, 0) + 1, Len(s))

\* parseInt(s, 10): leading white space, an optional sign, then the longest
\* run of decimal digits; NaN when there is no digit.
RECURSIVE SkipSpace(_)
SkipSpace(s) == IF s # <<>> /\ s[1] \in WhiteSpace THEN SkipSpace(Tail(s)) ELSE s

RECURSIVE DigitRun(_)
DigitRun(s) == IF s # <<>> /\ s[1] \in Digit THEN <<s[1]>> \o DigitRun(Tail(s)) ELSE <<>>

RECURSIVE DigitsValue(_)
DigitsValue(ds) ==
  IF ds = <<>> THEN 0
  ELSE 10 * DigitsValue(SubSeq(ds, 1, Len(ds) - 1)) + DigitValue(ds[Len(ds)])

parseInt(s) ==
  LET t == SkipSpace(s)
      signed == t # <<>> /\ t[1] \in {"+", "-"}
      body == IF signed THEN Tail(t) ELSE t
      ds == DigitRun(body)
  IN IF ds = <<>> THEN NaN
     ELSE IF signed /\ t[1] = "-" THEN Int32(-DigitsValue(ds))
     ELSE Int32(DigitsValue(ds))

(***************************************************************************)
(* JavaScript values.                                                      *)
(***************************************************************************)
Undefined == [t |-> "undefined"]
Null == [t |-> "null"]
Str(s) == [s |-> s, t |-> "string"]
Num(n) == [n |-> n, t |-> "number"]
Arr(a) == [a |-> a, t |-> "array"]
\* An object of which the codec reads the property "value" only.
Obj(v) == [t |-> "object", value |-> v]

\* ToBoolean: undefined, null, "" and 0 are falsy.
Truthy(v) ==
  CASE v.t = "undefined" -> FALSE
    [] v.t = "null" -> FALSE
    [] v.t = "string" -> v.s # <<>>
    [] v.t = "number" -> v.n # 0
    [] OTHER -> TRUE

\* The property "value" of a value: undefined on a primitive.
ValueOf(v) == IF v.t = "object" THEN v.value ELSE Undefined

\* A field record {id, description, length, value}.  description and length
\* are labels; NoDescription stands for a record without the property.
NoDescription == "(no description)"
Field(id, description, length, value) ==
  [length |-> length, value |-> value, id |-> id, description |-> description]

\* What a call does: it returns ret, throws an Error with the message, or
\* never returns ("hangs").  calls lists the helper functions the call ran,
\* in order.
Returned(v, calls) == [calls |-> calls, outcome |-> "returned", message |-> <<>>, ret |-> v]
Threw(message, calls) == [calls |-> calls, outcome |-> "threw", message |-> message, ret |-> Undefined]
Hangs(calls) == [calls |-> calls, outcome |-> "hangs", message |-> <<>>, ret |-> Undefined]
NotCalled == [calls |-> <<>>, outcome |-> "not called", message |-> <<>>, ret |-> Undefined]

(***************************************************************************)
(* calculateCRC16                                                          *)
(***************************************************************************)
polynomial == 4129      \* 0x1021
crcInit == 65535        \* 0xffff

\* a ^ b on non-negative integers: bit by bit within one hexadecimal digit
\* (XorDigit), digit by digit for the whole number.
RECURSIVE XorBits(_, _)
XorBits(a, b) ==
  IF a = 0 THEN b
  ELSE IF b = 0 THEN a
  ELSE ((a + b) % 2) + 2 * XorBits(a \div 2, b \div 2)

XorDigit == [a \in 0..15 |-> [b \in 0..15 |-> XorBits(a, b)]]

RECURSIVE BitXor(_, _)
BitXor(a, b) ==
  IF a = 0 THEN b
  ELSE IF b = 0 THEN a
  ELSE XorDigit[a % 16][b % 16] + 16 * BitXor(a \div 16, b \div 16)

\* crc & 0x8000 is non-zero.
TopBitSet(crc) == (crc \div 32768) % 2 = 1

\* One pass of the inner loop body: shift, conditional xor, mask to 16 bits.
crcShift(crc) ==
  IF TopBitSet(crc) THEN BitXor(crc * 2, polynomial) % 65536
  ELSE (crc * 2) % 65536

\* The inner loop: j = 0 .. 7.
RECURSIVE crcBits(_, _)
crcBits(crc, j) == IF j >= 8 THEN crc ELSE crcBits(crcShift(crc), j + 1)

\* One pass of the outer loop body for the character c.
crcChar(crc, c) == crcBits(BitXor(crc, charCodeAt[c] * 256), 0)

\* The outer loop over data[lo..hi], left to right.  The range is folded in
\* halves (left half first) to keep the evaluation shallow; the test on crc
\* makes the register of the left part a value before the right part runs.
RECURSIVE crcFold(_, _, _, _)
crcFold(data, lo, hi, crc) ==
  IF crc < 0 \/ lo > hi THEN crc
  ELSE IF lo = hi THEN crcChar(crc, data[lo])
  ELSE LET mid == (lo + hi) \div 2
       IN crcFold(data, mid + 1, hi, crcFold(data, lo, mid, crc))

\* Number.prototype.toString(16).
RECURSIVE NatToHex(_)
NatToHex(n) ==
  IF n < 16 THEN <<HexChars[n + 1]>>
  ELSE NatToHex(n \div 16) \o <<HexChars[(n % 16) + 1]>>

\* calculateCRC16 without the padding of its result.
calculateCRC16Unpadded(data) ==
  toUpperCase(NatToHex(crcFold(data, 1, Len(data), crcInit)))

calculateCRC16(data) ==
  LET crc == crcFold(data, 1, Len(data), crcInit)
  IN padStart(toUpperCase(NatToHex(crc)), 4)

(***************************************************************************)
(* formatLength, encodeField                                               *)
(***************************************************************************)
\* formatLength without the padding.
formatLengthUnpadded(value, length) == NumToString(Int32(value))

formatLength(value, length) == padStart(NumToString(Int32(value)), length)

\* subField.id && subField.value !== undefined
HasIdAndValue(field) == field.id # <<>> /\ field.value.t # "undefined"

RECURSIVE encodeField(_, _)
RECURSIVE encodeFieldList(_)
RECURSIVE encodeSubFields(_)

\* value.map((v) => encodeField(v.id, v.value)).join("")
encodeFieldList(fields) ==
  IF fields = <<>> THEN <<>>
  ELSE encodeField(Head(fields).id, Head(fields).value) \o encodeFieldList(Tail(fields))

\* The forEach over the sub-fields of a nested field: nestedData.
encodeSubFields(fields) ==
  IF fields = <<>> THEN <<>>
  ELSE LET subField == Head(fields)
           subValue == IF subField.value.t = "array"
                       THEN encodeFieldList(subField.value.a)
                       ELSE subField.value.s
       IN (IF HasIdAndValue(subField)
           THEN subField.id \o formatLength(Len(subValue), 2) \o subValue
           ELSE <<>>) \o encodeSubFields(Tail(fields))

\* encodeField(id, value) throws: formatLength receives the length of a
\* number, which is undefined, and undefined has no toString.  The values of
\* this model are strings, numbers, arrays and undefined.
RECURSIVE encodeFieldThrows(_)
encodeFieldThrows(value) ==
  IF value.t = "array"
  THEN \E i \in 1..Len(value.a) :
         /\ HasIdAndValue(value.a[i])
         /\ IF value.a[i].value.t = "array"
            THEN \E j \in 1..Len(value.a[i].value.a) :
                   encodeFieldThrows(value.a[i].value.a[j].value)
            ELSE value.a[i].value.t = "number"
  ELSE value.t = "number"

\* The message of the TypeError, as V8 words it.
NoLengthMessage == <<"C", "a", "n", "n", "o", "t", " ", "r", "e", "a", "d", " ", "p", "r", "o", "p", "e", "r", "t", "i", "e", "s", " ", "o", "f", " ", "u", "n", "d", "e", "f", "i", "n", "e", "d", " ", "(", "r", "e", "a", "d", "i", "n", "g", " ", "'", "t", "o", "S", "t", "r", "i", "n", "g", "'", ")">>

\* encodeField counting the id and the length field in the length.
encodeFieldCountingHeader(id, value) ==
  IF value.t = "array"
  THEN LET nestedData == encodeSubFields(value.a)
       IN id \o formatLength(Len(nestedData) + 4, 2) \o nestedData
  ELSE id \o formatLength(Len(value.s) + 4, 2) \o value.s

encodeField(id, value) ==
  IF value.t = "array"
  THEN LET nestedData == encodeSubFields(value.a)
       IN id \o formatLength(Len(nestedData), 2) \o nestedData
  ELSE id \o formatLength(Len(value.s), 2) \o value.s

(***************************************************************************)
(* PixCodec.encode                                                         *)
(***************************************************************************)
InvalidDataMessage == <<"I", "n", "v", "a", "l", "i", "d", " ", "P", "I", "X", " ", "d", "a", "t", "a", " ", "f", "o", "r", "m", "a", "t", ".", " ", "E", "x", "p", "e", "c", "t", "e", "d", " ", "o", "b", "j", "e", "c", "t", " ", "w", "i", "t", "h", " ", "v", "a", "l", "u", "e", " ", "a", "r", "r", "a", "y", ".">>
CrcId == <<"6", "3">>
CrcHeader == <<"6", "3", "0", "4">>

\* The filter keeping every field.
fieldsKeepingCRC(fields) == fields

\* pixData.value.filter((field) => field.id !== "63")
fieldsWithoutCRC(fields) == SelectSeq(fields, LAMBDA field : field.id # CrcId)

\* The forEach that appends every field with an id and a defined value.
RECURSIVE encodeFields(_)
encodeFields(fields) ==
  IF fields = <<>> THEN <<>>
  ELSE (IF HasIdAndValue(Head(fields))
        THEN encodeField(Head(fields).id, Head(fields).value)
        ELSE <<>>) \o encodeFields(Tail(fields))

\* The part of encode after the check of its argument, for the field list.
encodeList(list) ==
  LET fields == fieldsWithoutCRC(list)
      body == encodeFields(fields) \o CrcHeader
      crc == calculateCRC16(body)
  IN IF \E i \in 1..Len(fields) :
          HasIdAndValue(fields[i]) /\ encodeFieldThrows(fields[i].value)
     THEN Threw(NoLengthMessage, <<"encodeField">>)
     ELSE Returned(Str(body \o crc),
                   (IF \E i \in 1..Len(fields) : HasIdAndValue(fields[i])
                    THEN <<"encodeField">> ELSE <<>>) \o <<"calculateCRC16">>)

\* encode taking a missing field list for an empty one.
encodeLenient(pixData) ==
  IF ~Truthy(pixData) THEN Threw(InvalidDataMessage, <<>>)
  ELSE encodeList(IF ValueOf(pixData).t = "array" THEN pixData.value.a ELSE <<>>)

encode(pixData) ==
  IF ~Truthy(pixData) \/ ~Truthy(ValueOf(pixData)) \/ ValueOf(pixData).t # "array"
  THEN Threw(InvalidDataMessage, <<>>)
  ELSE encodeList(pixData.value.a)

(***************************************************************************)
(* decodeFields                                                            *)
(*                                                                         *)
(* The scan loop is a deterministic function of position, so it runs       *)
(* forever exactly when a position comes back, or when the position is so  *)
(* far below 0 that every read starts at index 0 and the step is negative. *)
(* A nested call on the very string being scanned recurses without end,    *)
(* which the engine ends with a RangeError.                                *)
(***************************************************************************)
\* The nested ids without 62.
NestedIdsWithout62 == {<<"2", "6">>}

\* ["26", "62"]
NestedIds == {<<"2", "6">>, <<"6", "2">>}
CrcLength == <<"0", "4">>

ScanDone(fields) == [fields |-> fields, end |-> "returned"]
ScanHangs == [fields |-> <<>>, end |-> "hangs"]
ScanOverflow == [fields |-> <<>>, end |-> "overflow"]

RECURSIVE decodeFields(_)
RECURSIVE scanLoop(_, _, _, _)

scanLoop(pixString, position, fields, seen) ==
  IF NumLess(position, Int32(Len(pixString) - 4))
  THEN LET id == substr(pixString, position, Int32(2))
           length == parseInt(substr(pixString, NumAdd(position, Int32(2)), Int32(2)))
           value == substr(pixString, NumAdd(position, Int32(4)), length)
           lengthLabel == padStart(NumToString(length), 2)
           next == NumAdd(position, NumAdd(Int32(4), length))
           nested == IF id \in NestedIds /\ value # pixString
                     THEN decodeFields(value)
                     ELSE ScanDone(<<>>)
           field == IF id \in NestedIds
                    THEN Field(id, NoDescription, lengthLabel, Arr(nested.fields))
                    ELSE Field(id, NoDescription, lengthLabel, Str(value))
       IN IF id \in NestedIds /\ value = pixString THEN ScanOverflow
          ELSE IF nested.end # "returned" THEN nested
          ELSE IF position.n \in seen THEN ScanHangs
          ELSE IF ~next.nan /\ next.n < position.n /\ position.n + 4 <= -Len(pixString)
          THEN ScanHangs
          ELSE scanLoop(pixString, next, Append(fields, field), seen \cup {position.n})
  ELSE \* Add CRC field
       IF NumLess(position, Int32(Len(pixString)))
       THEN ScanDone(Append(fields,
              Field(CrcId, NoDescription, CrcLength,
                    Str(substr(pixString, NumAdd(position, Int32(4)), Int32(4))))))
       ELSE ScanDone(fields)

decodeFields(pixString) == scanLoop(pixString, Int32(0), <<>>, {})

\* The value of position when the while loop of decodeFields is left, for
\* a scan that returns.
RECURSIVE scanPosition(_, _, _)
scanPosition(pixString, position, seen) ==
  IF NumLess(position, Int32(Len(pixString) - 4)) /\ position.n \notin seen
  THEN LET length == parseInt(substr(pixString, NumAdd(position, Int32(2)), Int32(2)))
       IN scanPosition(pixString, NumAdd(position, NumAdd(Int32(4), length)),
                       seen \cup {position.n})
  ELSE position

(***************************************************************************)
(* PixCodec.decode                                                         *)
(***************************************************************************)
InvalidStringMessage == <<"I", "n", "v", "a", "l", "i", "d", " ", "P", "I", "X", " ", "s", "t", "r", "i", "n", "g", ".", " ", "E", "x", "p", "e", "c", "t", "e", "d", " ", "n", "o", "n", "-", "e", "m", "p", "t", "y", " ", "s", "t", "r", "i", "n", "g", ".">>
StackOverflowMessage == <<"M", "a", "x", "i", "m", "u", "m", " ", "c", "a", "l", "l", " ", "s", "t", "a", "c", "k", " ", "s", "i", "z", "e", " ", "e", "x", "c", "e", "e", "d", "e", "d">>
InvalidCrcMessage(calculatedCRC, providedCRC) ==
  <<"I", "n", "v", "a", "l", "i", "d", " ", "C", "R", "C", ".", " ", "E", "x", "p", "e", "c", "t", "e", "d", ":", " ">> \o calculatedCRC \o <<",", " ", "G", "o", "t", ":", " ">> \o providedCRC

\* The comparison of the CRCs that ignores the case of the provided one.
crcMismatchIgnoringCase(providedCRC, calculatedCRC) ==
  toUpperCase(providedCRC) # calculatedCRC

\* providedCRC !== calculatedCRC
crcMismatch(providedCRC, calculatedCRC) == providedCRC # calculatedCRC

\* descriptionsMap[field.id], NoDescription when there is no such key.
descriptionsMap(id) ==
  CASE id = <<"0", "0">> -> "Payload Format Indicator"
    [] id = <<"2", "6">> -> "Merchant Account Information"
    [] id = <<"5", "2">> -> "Merchant Category Code (MCC)"
    [] id = <<"5", "3">> -> "Transaction Currency"
    [] id = <<"5", "4">> -> "Transaction Amount"
    [] id = <<"5", "8">> -> "Country Code"
    [] id = <<"5", "9">> -> "Merchant Name"
    [] id = <<"6", "0">> -> "Merchant City"
    [] id = <<"6", "2">> -> "Additional Data Field Template"
    [] id = <<"6", "3">> -> "CRC16 - result's 4 nibbles"
    [] OTHER -> NoDescription

\* The label given to a sub-field of the nested field parentId.
subFieldDescription(parentId, subField) ==
  IF parentId = <<"2", "6">>
  THEN IF subField.id = <<"0", "1">> THEN "Key"
       ELSE IF subField.id = <<"0", "0">> THEN "GUI"
       ELSE subField.description
  ELSE IF parentId = <<"6", "2">>
  THEN IF subField.id = <<"5", "0">> THEN "Payment system specific template"
       ELSE IF subField.id = <<"0", "5">> THEN "Transaction ID"
       ELSE subField.description
  ELSE subField.description

\* The body of fields.forEach: the description pass over one field.
describeField(field) ==
  LET described == IF descriptionsMap(field.id) # NoDescription
                   THEN [field EXCEPT !.description = descriptionsMap(field.id)]
                   ELSE field
  IN IF field.value.t = "array"
     THEN [described EXCEPT !.value =
             Arr([i \in 1..Len(field.value.a) |->
                    [field.value.a[i] EXCEPT
                       !.description = subFieldDescription(field.id, field.value.a[i])]])]
     ELSE described

decode(pixString) ==
  IF ~Truthy(pixString) \/ pixString.t # "string"
  THEN Threw(InvalidStringMessage, <<>>)
  ELSE LET dataWithoutCRC == sliceFront(pixString.s)
           providedCRC == sliceLast4(pixString.s)
           calculatedCRC == calculateCRC16(dataWithoutCRC)
           scan == decodeFields(pixString.s)
       IN IF crcMismatch(providedCRC, calculatedCRC)
          THEN Threw(InvalidCrcMessage(calculatedCRC, providedCRC), <<"calculateCRC16">>)
          ELSE IF scan.end = "hangs"
          THEN Hangs(<<"calculateCRC16", "decodeFields">>)
          ELSE IF scan.end = "overflow"
          THEN Threw(StackOverflowMessage, <<"calculateCRC16", "decodeFields">>)
          ELSE Returned(Obj(Arr([i \in 1..Len(scan.fields) |-> describeField(scan.fields[i])])),
                        <<"calculateCRC16", "decodeFields">>)

(***************************************************************************)
(* parseFloat(amount).toFixed(2)                                           *)
(*                                                                         *)
(* A parsed number is a sign, a whole part and the fraction digits read.   *)
(* The clients of this model pass amounts with at most two fraction digits *)
(* and no exponent, for which toFixed(2) is exact; with more digits the    *)
(* result depends on the binary double and is not modelled.                *)
(***************************************************************************)
parseFloat(s) ==
  LET t == SkipSpace(s)
      signed == t # <<>> /\ t[1] \in {"+", "-"}
      body == IF signed THEN Tail(t) ELSE t
      whole == DigitRun(body)
      rest == SubSeq(body, Len(whole) + 1, Len(body))
      frac == IF rest # <<>> /\ rest[1] = "." THEN DigitRun(Tail(rest)) ELSE <<>>
  IN IF whole = <<>> /\ frac = <<>>
     THEN [nan |-> TRUE, whole |-> 0, frac |-> <<>>, neg |-> FALSE]
     ELSE [nan |-> FALSE, whole |-> DigitsValue(whole), frac |-> frac,
           neg |-> signed /\ t[1] = "-"]

toFixed2(x) ==
  IF x.nan THEN <<"N", "a", "N">>
  ELSE LET cents == SubSeq(x.frac \o <<"0", "0">>, 1, 2)
           zero == x.whole = 0 /\ DigitsValue(x.frac) = 0
       IN (IF x.neg /\ ~zero THEN <<"-">> ELSE <<>>)
          \o NatToString(x.whole) \o <<".">> \o cents

(***************************************************************************)
(* PixCodec.createPayment                                                  *)
(***************************************************************************)
MissingParametersMessage ==
  <<"M", "i", "s", "s", "i", "n", "g", " ", "r", "e", "q", "u", "i", "r", "e", "d", " ", "p", "a", "r", "a", "m", "e", "t", "e", "r", "s", ":", " ", "k", "e", "y", ",", " ", "m", "e", "r", "c", "h", "a", "n", "t", "N", "a", "m", "e", ",", " ", "a", "n", "d", " ", "m", "e", "r", "c", "h", "a", "n", "t", "C", "i", "t", "y", " ", "a", "r", "e", " ", "r", "e", "q", "u", "i", "r", "e", "d">>
Variable == <<"v", "a", "r", "i", "a", "b", "l", "e">>

\* Array.prototype.splice(start, 0, item): insert item at start, a negative
\* start counting from the end.
splice(array, start, item) ==
  LET at == IF start < 0 THEN Max(Len(array) + start, 0) ELSE Min(start, Len(array))
  IN SubSeq(array, 1, at) \o <<item>> \o SubSeq(array, at + 1, Len(array))

\* The sub-field 01 with the key in upper case.
keySubFieldUpperCased(key) ==
  Field(<<"0", "1">>, "Key", Variable,
        IF key.t = "string" THEN Str(toUpperCase(key.s)) ELSE key)

\* { id: "01", description: "Key", length: "variable", value: key }
keySubField(key) == Field(<<"0", "1">>, "Key", Variable, key)

\* The seven fields of the literal pixData.value.
baseFields(key, merchantName, merchantCity) ==
  << Field(<<"0", "0">>, "Payload Format Indicator", <<"0", "2">>, Str(<<"0", "1">>)),
     Field(<<"2", "6">>, "Merchant Account Information", Variable,
           Arr(<< Field(<<"0", "0">>, "GUI", <<"1", "4">>, Str(<<"B", "R", ".", "G", "O", "V", ".", "B", "C", "B", ".", "P", "I", "X">>)),
                  keySubField(key) >>)),
     Field(<<"5", "2">>, "Merchant Category Code (MCC)", <<"0", "4">>, Str(<<"0", "0", "0", "0">>)),
     Field(<<"5", "3">>, "Transaction Currency", <<"0", "3">>, Str(<<"9", "8", "6">>)),
     Field(<<"5", "8">>, "Country Code", <<"0", "2">>, Str(<<"B", "R">>)),
     Field(<<"5", "9">>, "Merchant Name", Variable, Str(toUpperCase(merchantName.s))),
     Field(<<"6", "0">>, "Merchant City", Variable, Str(toUpperCase(merchantCity.s))) >>

amountField(amount) ==
  Field(<<"5", "4">>, "Transaction Amount", Variable, Str(toFixed2(parseFloat(amount.s))))

\* The amount spliced in one place further back.
withAmountMisplaced(fields, amount) ==
  IF Truthy(amount) THEN splice(fields, -2, amountField(amount)) ELSE fields

\* if (amount) pixData.value.splice(-3, 0, {...})
withAmount(fields, amount) ==
  IF Truthy(amount) THEN splice(fields, -3, amountField(amount)) ELSE fields

brCodeTemplate ==
  Field(<<"5", "0">>, "Payment system specific template", Variable,
        Arr(<< Field(<<"0", "0">>, "GUI", <<"1", "7">>, Str(<<"B", "R", ".", "G", "O", "V", ".", "B", "C", "B", ".", "B", "R", "C", "O", "D", "E">>)),
               Field(<<"0", "1">>, "version", <<"0", "5">>, Str(<<"1", ".", "0", ".", "0">>)) >>))

\* The additional data with the description pushed before the transaction id.
additionalDataSwapped(transactionId, description) ==
  Field(<<"6", "2">>, "Additional Data Field Template", Variable,
        Arr((IF Truthy(description)
             THEN <<Field(<<"0", "2">>, "Description", Variable, description)>>
             ELSE <<>>)
            \o (IF Truthy(transactionId)
                THEN <<Field(<<"0", "5">>, "Transaction ID", Variable, transactionId)>>
                ELSE <<>>)
            \o <<brCodeTemplate>>))

additionalData(transactionId, description) ==
  Field(<<"6", "2">>, "Additional Data Field Template", Variable,
        Arr((IF Truthy(transactionId)
             THEN <<Field(<<"0", "5">>, "Transaction ID", Variable, transactionId)>>
             ELSE <<>>)
            \o (IF Truthy(description)
                THEN <<Field(<<"0", "2">>, "Description", Variable, description)>>
                ELSE <<>>)
            \o <<brCodeTemplate>>))

\* if (transactionId || description) pixData.value.push(additionalData)
withAdditionalData(fields, transactionId, description) ==
  IF Truthy(transactionId) \/ Truthy(description)
  THEN Append(fields, additionalData(transactionId, description))
  ELSE fields

\* The messages of the TypeError of toUpperCase on a number, as V8 words it.
NameNotStringMessage == <<"m", "e", "r", "c", "h", "a", "n", "t", "N", "a", "m", "e", ".", "t", "o", "U", "p", "p", "e", "r", "C", "a", "s", "e", " ", "i", "s", " ", "n", "o", "t", " ", "a", " ", "f", "u", "n", "c", "t", "i", "o", "n">>
CityNotStringMessage == <<"m", "e", "r", "c", "h", "a", "n", "t", "C", "i", "t", "y", ".", "t", "o", "U", "p", "p", "e", "r", "C", "a", "s", "e", " ", "i", "s", " ", "n", "o", "t", " ", "a", " ", "f", "u", "n", "c", "t", "i", "o", "n">>

\* The parameters of this model are strings, numbers and undefined; the
\* amount is a string or undefined.
createPayment(params) ==
  IF ~Truthy(params.key) \/ ~Truthy(params.merchantName) \/ ~Truthy(params.merchantCity)
  THEN Threw(MissingParametersMessage, <<>>)
  ELSE IF params.merchantName.t # "string" THEN Threw(NameNotStringMessage, <<>>)
  ELSE IF params.merchantCity.t # "string" THEN Threw(CityNotStringMessage, <<>>)
  ELSE Returned(
         Obj(Arr(withAdditionalData(
                   withAmount(baseFields(params.key, params.merchantName, params.merchantCity),
                              params.amount),
                   params.transactionId, params.description))),
         <<>>)

(***************************************************************************)
(* PixCodec.validateKey                                                    *)
(***************************************************************************)
KeyResult(isValid, type, error) == [isValid |-> isValid, type |-> type, error |-> error]
NoError == "(no error)"

\* key.replace(/\D/g, "")
cleanKeyOf(key) == SelectSeq(key, LAMBDA c : c \in Digit)

AllDigits(s) == \A i \in 1..Len(s) : s[i] \in Digit

\* /^\d{n}$/.test(s)
IsDigits(s, n) == Len(s) = n /\ AllDigits(s)

\* [^\s@]
NotSpaceNorAt(c) == c \notin WhiteSpace /\ c # "@"

\* /^[^\s@]+@[^\s@]+\.[^\s@]+$/.test(key): some "@" at i and some "." at j
\* split the key into three non-empty runs of [^\s@].
emailPattern(key) ==
  \E i \in 2..Len(key), j \in 4..Len(key) - 1 :
     /\ i + 2 <= j
     /\ key[i] = "@"
     /\ key[j] = "."
     /\ \A k \in 1..Len(key) : k # i => NotSpaceNorAt(key[k])

\* /^\+55\d{10,11}$/.test(key)
phonePattern(key) ==
  /\ Len(key) \in {13, 14}
  /\ SubSeq(key, 1, 3) = <<"+", "5", "5">>
  /\ AllDigits(SubSeq(key, 4, Len(key)))

\* [0-9a-f] under the i flag.
IsHex(c) == c \in Digit \cup {"a", "b", "c", "d", "e", "f", "A", "B", "C", "D", "E", "F"}

\* The UUID pattern without the i flag.
uuidPatternCaseSensitive(key) ==
  /\ Len(key) = 36
  /\ \A i \in 1..36 :
       IF i \in {9, 14, 19, 24} THEN key[i] = "-"
       ELSE key[i] \in Digit \cup {"a", "b", "c", "d", "e", "f"}

\* /^[0-9a-f]{8}-[0-9a-f]{4}-[0-9a-f]{4}-[0-9a-f]{4}-[0-9a-f]{12}$/i.test(key)
uuidPattern(key) ==
  /\ Len(key) = 36
  /\ \A i \in 1..36 : IF i \in {9, 14, 19, 24} THEN key[i] = "-" ELSE IsHex(key[i])

\* validateKey testing the email pattern before the digit counts.
validateKeyEmailFirst(key) ==
  IF ~Truthy(key) \/ key.t # "string"
  THEN KeyResult(FALSE, "null", "Key must be a non-empty string")
  ELSE LET cleanKey == cleanKeyOf(key.s)
       IN IF emailPattern(key.s) THEN KeyResult(TRUE, "EMAIL", NoError)
          ELSE IF IsDigits(cleanKey, 11) THEN KeyResult(TRUE, "CPF", NoError)
          ELSE IF IsDigits(cleanKey, 14) THEN KeyResult(TRUE, "CNPJ", NoError)
          ELSE IF phonePattern(key.s) THEN KeyResult(TRUE, "PHONE", NoError)
          ELSE IF uuidPattern(key.s) THEN KeyResult(TRUE, "RANDOM", NoError)
          ELSE KeyResult(FALSE, "null", "Invalid PIX key format")

validateKey(key) ==
  IF ~Truthy(key) \/ key.t # "string"
  THEN KeyResult(FALSE, "null", "Key must be a non-empty string")
  ELSE LET cleanKey == cleanKeyOf(key.s)
       IN IF IsDigits(cleanKey, 11) THEN KeyResult(TRUE, "CPF", NoError)
          ELSE IF IsDigits(cleanKey, 14) THEN KeyResult(TRUE, "CNPJ", NoError)
          ELSE IF emailPattern(key.s) THEN KeyResult(TRUE, "EMAIL", NoError)
          ELSE IF phonePattern(key.s) THEN KeyResult(TRUE, "PHONE", NoError)
          ELSE IF uuidPattern(key.s) THEN KeyResult(TRUE, "RANDOM", NoError)
          ELSE KeyResult(FALSE, "null", "Invalid PIX key format")


(***************************************************************************)
(* The component qrCodeDisplay (the class that imports PixCodec): the      *)
(* functions of its methods.                                               *)
(***************************************************************************)
\* Payment data as the host passes it: an object with the properties the
\* component reads, each a value or undefined.
PaymentData(key, merchantName, merchantCity, amount, transactionId) ==
  [t |-> "object", key |-> key, merchantName |-> merchantName,
   merchantCity |-> merchantCity, amount |-> amount, transactionId |-> transactionId]
EmptyObject == PaymentData(Undefined, Undefined, Undefined, Undefined, Undefined)

\* window.encodeQR once the library defines it.
EncodeQR == [t |-> "function"]

\* paymentData && paymentData.key && paymentData.merchantName &&
\* paymentData.merchantCity
hasRequiredData(data) ==
  /\ Truthy(data)
  /\ data.t = "object"
  /\ Truthy(data.key)
  /\ Truthy(data.merchantName)
  /\ Truthy(data.merchantCity)

\* The argument of PixCodec.createPayment: no description is passed.
paymentParams(data) ==
  [description |-> Undefined, key |-> data.key, merchantName |-> data.merchantName,
   merchantCity |-> data.merchantCity, amount |-> data.amount,
   transactionId |-> data.transactionId]

GenerateFailedPrefix == <<"F", "a", "i", "l", "e", "d", " ", "t", "o", " ", "g", "e", "n", "e", "r", "a", "t", "e", " ", "P", "I", "X", " ", "c", "o", "d", "e", ":", " ">>
LoadFailedPrefix == <<"F", "a", "i", "l", "e", "d", " ", "t", "o", " ", "l", "o", "a", "d", " ", "Q", "R", " ", "c", "o", "d", "e", " ", "l", "i", "b", "r", "a", "r", "y", ":", " ">>
QRFailedPrefix == <<"F", "a", "i", "l", "e", "d", " ", "t", "o", " ", "g", "e", "n", "e", "r", "a", "t", "e", " ", "Q", "R", " ", "c", "o", "d", "e", ":", " ">>
LibraryNotFoundMessage ==
  <<"Q", "R", " ", "C", "o", "d", "e", " ", "l", "i", "b", "r", "a", "r", "y", " ", "n", "o", "t", " ", "f", "o", "u", "n", "d", " ", "i", "n", " ", "g", "l", "o", "b", "a", "l", " ", "s", "c", "o", "p", "e", " ", "a", "f", "t", "e", "r", " ", "l", "o", "a", "d", "i", "n", "g", ".", " ", "P", "l", "e", "a", "s", "e", " ", "e", "n", "s", "u", "r", "e", " ", "t", "h", "e", " ", "Q", "R", " ", "l", "i", "b", "r", "a", "r", "y", " ", "i", "s", " ", "p", "r", "o", "p", "e", "r", "l", "y", " ", "l", "o", "a", "d", "e", "d", ".">>

\* What the latest call on the component did: the method, who called it,
\* its argument, what the calls of the codec did, and the fields of the
\* component before the call.
ComponentCall(op, via, arg, creating, encoding, before) ==
  [op |-> op, via |-> via, arg |-> arg, creating |-> creating, encoding |-> encoding,
   before |-> before]
NoFields == [pixCode |-> Undefined, errorMessage |-> <<>>, qrCodeGenerated |-> FALSE]
NoComponentCall == ComponentCall("none", "none", Undefined, NotCalled, NotCalled, NoFields)

\* What PixCodec does in the try block of generatePixCodeFromPaymentData:
\* createPayment, and encode if createPayment returned.
codecCalls(data) ==
  LET creating == createPayment(paymentParams(data))
  IN [creating |-> creating,
      encoding |-> IF creating.outcome = "returned" THEN encode(creating.ret)
                   ELSE NotCalled]

\* What generatePixCodeFromPaymentData leaves: the fields of the component
\* and what its calls of the codec did.
Generation(fields, creating, encoding) ==
  [fields |-> fields, creating |-> creating, encoding |-> encoding]

\* The try block of generatePixCodeFromPaymentData, given what the codec
\* does (calls); fields holds the fields of the component before the call.
tryGenerate(calls, fields) ==
  IF calls.creating.outcome = "threw"
  THEN Generation([fields EXCEPT !.errorMessage = GenerateFailedPrefix \o calls.creating.message],
                  calls.creating, NotCalled)
  ELSE IF calls.encoding.outcome = "threw"
  THEN Generation([fields EXCEPT !.errorMessage = GenerateFailedPrefix \o calls.encoding.message],
                  calls.creating, calls.encoding)
  ELSE Generation([pixCode |-> calls.encoding.ret, errorMessage |-> <<>>,
                   qrCodeGenerated |-> FALSE],
                  calls.creating, calls.encoding)

\* generatePixCodeFromPaymentData storing the PIX code and the message and
\* leaving qrCodeGenerated as it is.
generatePixCodeKeepingFlag(data, calls, fields) ==
  IF ~hasRequiredData(data) THEN Generation(fields, NotCalled, NotCalled)
  ELSE LET done == tryGenerate(calls, fields)
       IN [done EXCEPT !.fields.qrCodeGenerated = fields.qrCodeGenerated]

\* generatePixCodeFromPaymentData testing only that there is payment data.
generatePixCodeUnguarded(data, calls, fields) ==
  IF ~Truthy(data) THEN Generation(fields, NotCalled, NotCalled)
  ELSE tryGenerate(calls, fields)

\* generatePixCodeFromPaymentData leaving the PIX code out when the codec
\* throws.
generatePixCodeClearing(data, calls, fields) ==
  IF ~hasRequiredData(data) THEN Generation(fields, NotCalled, NotCalled)
  ELSE LET done == tryGenerate(calls, fields)
       IN IF done.encoding.outcome = "returned" THEN done
          ELSE [done EXCEPT !.fields.pixCode = Undefined]

\* generatePixCodeFromPaymentData(data)
generatePixCodeFromPaymentData(data, calls, fields) ==
  IF ~hasRequiredData(data) THEN Generation(fields, NotCalled, NotCalled)
  ELSE tryGenerate(calls, fields)

\* What loadQRCodeLibrary leaves after its await.
Loaded(encoder, message, shown, loading) ==
  [errorMessage |-> message, qrCodeLibraryEncode |-> encoder, qrValue |-> shown,
   isLoading |-> loading]

\* loadQRCodeLibrary after its await with the assignment of _isLoading at
\* the end of the try block.
loadQRCodeLibraryWithoutFinally(how, reason, code, before) ==
  CASE how = "resolved" -> Loaded(EncodeQR, <<>>, code, FALSE)
    [] how = "empty" ->
         Loaded(Undefined, LoadFailedPrefix \o LibraryNotFoundMessage, before.qrValue,
                before.isLoading)
    [] how = "rejected" ->
         Loaded(before.qrCodeLibraryEncode, LoadFailedPrefix \o reason, before.qrValue,
                before.isLoading)

\* loadQRCodeLibrary after its await: the script loaded and window.encodeQR
\* is defined ("resolved"), it loaded and window.encodeQR is not defined
\* ("empty"), or loadScript rejected with an error of message reason; code
\* is this.pixCode and before holds the fields before the continuation.
loadQRCodeLibrary(how, reason, code, before) ==
  CASE how = "resolved" -> Loaded(EncodeQR, <<>>, code, FALSE)
    [] how = "empty" ->
         Loaded(Undefined, LoadFailedPrefix \o LibraryNotFoundMessage, before.qrValue, FALSE)
    [] how = "rejected" ->
         Loaded(before.qrCodeLibraryEncode, LoadFailedPrefix \o reason, before.qrValue, FALSE)

\* this.qrCodeLibraryEncode && this.pixCode && this.showQRCode &&
\* (this._lastPixCode !== this.pixCode || !this.qrCodeGenerated)
shouldGenerateQRCode(encoder, code, show, lastCode, generated) ==
  /\ Truthy(encoder)
  /\ Truthy(code)
  /\ show
  /\ (lastCode # code \/ ~generated)

\* The payment data of the host: nothing, an empty object, data without a
\* city and with an empty key, two payments, and data for which
\* createPayment and encode throw.
PaymentDataArgs ==
  { Undefined, Null, EmptyObject,
    PaymentData(Str(<<"k", "@", "x", ".", "i", "o">>), Str(<<"A", "n", "a">>), Undefined, Undefined, Undefined),
    PaymentData(Str(<<>>), Str(<<"A", "n", "a">>), Str(<<"R", "i", "o">>), Str(<<"1", "0", ".", "0", "0">>), Undefined),
    PaymentData(Str(<<"k", "@", "x", ".", "i", "o">>), Str(<<"A", "n", "a">>), Str(<<"R", "i", "o">>), Str(<<"1", "0", ".", "0", "0">>), Str(<<"t", "1">>)),
    PaymentData(Str(<<"+", "5", "5", "1", "1", "9", "8", "7", "6", "5", "4", "3", "2", "1">>), Str(<<"A", "n", "a">>), Str(<<"R", "i", "o">>), Undefined, Undefined),
    PaymentData(Str(<<"k", "@", "x", ".", "i", "o">>), Num(7), Str(<<"R", "i", "o">>), Undefined, Undefined),
    PaymentData(Num(7), Str(<<"A", "n", "a">>), Str(<<"R", "i", "o">>), Undefined, Undefined) }

\* What the codec does for each of them; no property of null or undefined
\* can be read to call it.
CodecCallsTable ==
  [data \in PaymentDataArgs |->
     IF data.t = "object" THEN codecCalls(data)
     ELSE [creating |-> NotCalled, encoding |-> NotCalled]]
(***************************************************************************)
(* The clients of the codec.  Every function of the codec is pure, so the  *)
(* state is what one client holds: the arguments of its calls and what     *)
(* each call did.  A client starts with createPayment, with encode on a    *)
(* document of its own, with decode on a string of its own or with         *)
(* validateKey; it goes on by encoding the document createPayment returned *)
(* and by decoding the string encode returned, as received or with one of  *)
(* its last four characters changed, and by encoding the document decode   *)
(* returned.                                                               *)
(***************************************************************************)
VARIABLES
  params,      \* the argument of the latest createPayment
  created,     \* what that createPayment did
  pixData,     \* the argument of the latest encode
  encoded,     \* what that encode did
  pixString,   \* the argument of the latest decode
  origin,      \* where pixString came from: "encode", "tampered", "client"
  decoded,     \* what that decode did
  reencoded,   \* what encode did on the document that decode returned
  key,         \* the argument of the latest validateKey
  keyResult,   \* what that validateKey returned
  crcData,     \* the argument of the latest calculateCRC16 on a string by itself
  crcResult,   \* what it returned ("" before the call)
  changedData, \* that argument with one of its characters replaced
  changedResult, \* what calculateCRC16 returned for it ("" before the call)
  fieldId,     \* the arguments of the latest encodeField on a field by itself
  fieldValue,
  fieldEncoded, \* what it returned ("" before the call)
  showQRCode,  \* the fields of the component qrCodeDisplay
  pixCode,
  paymentData,          \* _paymentData
  lastPixCode,          \* _lastPixCode
  qrValue,              \* value
  qrCodeGenerated,
  errorMessage,         \* _errorMessage
  isLoading,            \* _isLoading
  qrCodeLibraryEncode,
  loads,       \* where each loadQRCodeLibrary in flight stands
  hostCalls,   \* how many calls the host of the component has made
  last,        \* what the latest call on the component did
  pixCodec     \* what the PixCodec the component imports does for each
               \* payment data of the host; it never changes

clientVars ==
  <<params, created, pixData, encoded, pixString, origin, decoded, reencoded, key, keyResult>>
crcVars == <<crcData, crcResult, changedData, changedResult>>
fieldVars == <<fieldId, fieldValue, fieldEncoded>>
componentVars ==
  <<showQRCode, pixCode, paymentData, lastPixCode, qrValue, qrCodeGenerated,
    errorMessage, isLoading, qrCodeLibraryEncode, loads, hostCalls, last, pixCodec>>
vars == <<clientVars, crcVars, fieldVars, componentVars>>

(***************************************************************************)
(* The inputs the clients draw from.                                       *)
(***************************************************************************)
\* The length field of a tuple has two decimal digits.
LengthDigits == 2
MaxFieldLen == 10 ^ LengthDigits - 1

\* Bounds of the model.
MaxDocFields == 2   \* fields in a document a client builds itself
MaxRawLen == 3      \* characters in a string a client builds itself

Fill(c, n) == [i \in 1..n |-> c]

NoParams ==
  [description |-> Undefined, key |-> Undefined, merchantName |-> Undefined, merchantCity |-> Undefined,
   amount |-> Undefined, transactionId |-> Undefined]

VectorKey == <<"2", "3", "4", "8", "4", "2", "2", "5", "0", "0", "0", "1", "6", "6">>
\* The nested content of field 26 is 22 characters plus the key, that of
\* field 62 is 34 characters plus 4 for each of its sub-fields 05 and 02 and
\* their values: KeyRoom and DescriptionRoom fill them to MaxFieldLen.
KeyRoom == MaxFieldLen - 22
DescriptionRoom == MaxFieldLen - 34 - 4 - 11

KeyArgs ==
  { Undefined, Str(<<>>), Str(VectorKey), Str(<<"j", "o", "a", "o", "@", "m", "a", "i", "l", ".", "b", "r">>),
    Str(Fill("k", KeyRoom)), Str(Fill("k", KeyRoom + 1)) }
MerchantNameArgs == { Undefined, Str(<<>>), Str(<<"W", "I", "S", "E", "F", "O", "X">>), Str(<<"J", "o", "a", "o", " ", "S", "i", "l", "v", "a">>) }
MerchantCityArgs == { Undefined, Str(<<>>), Str(<<"B", "E", "L", "O", " ", "H", "O", "R", "I", "Z", "O", "N", "T", "E">>) }
AmountArgs == { Undefined, Str(<<>>), Str(<<"1", "2", "3", ".", "4", "5">>), Str(<<"1", "0">>), Str(<<"a", "b", "c">>) }
TransactionIdArgs == { Undefined, Str(<<>>), Str(<<"r", "e", "f", "1", "2", "3", "4">>) }
DescriptionArgs ==
  { Undefined, Str(<<>>), Str(<<"C", "a", "f", "e">>),
    Str(Fill("d", DescriptionRoom)), Str(Fill("d", DescriptionRoom + 1)) }

AllParams ==
  [key : KeyArgs, merchantName : MerchantNameArgs, merchantCity : MerchantCityArgs,
   amount : AmountArgs, transactionId : TransactionIdArgs, description : DescriptionArgs]

\* The parameters of the end-to-end vector of the codec's tests, and the
\* least parameters createPayment accepts.
VectorParams ==
  [description |-> Undefined, key |-> Str(VectorKey), merchantName |-> Str(<<"W", "I", "S", "E", "F", "O", "X">>),
   merchantCity |-> Str(<<"B", "E", "L", "O", " ", "H", "O", "R", "I", "Z", "O", "N", "T", "E">>), amount |-> Str(<<"1", "2", "3", ".", "4", "5">>),
   transactionId |-> Str(<<"r", "e", "f", "1", "2", "3", "4">>)]
PlainParams ==
  [description |-> Undefined, key |-> Str(<<"j", "o", "a", "o", "@", "m", "a", "i", "l", ".", "b", "r">>), merchantName |-> Str(<<"J", "o", "a", "o", " ", "S", "i", "l", "v", "a">>),
   merchantCity |-> Str(<<"B", "E", "L", "O", " ", "H", "O", "R", "I", "Z", "O", "N", "T", "E">>), amount |-> Undefined,
   transactionId |-> Undefined]

ParamNames == DOMAIN NoParams
Differing(p, q) == Cardinality({n \in ParamNames : p[n] # q[n]})

\* Every choice of parameters that differs from the vector, or from the
\* least parameters, in at most two places.
ParamArgs ==
  {p \in AllParams : Differing(p, VectorParams) <= 2 \/ Differing(p, PlainParams) <= 2}

\* The fields a client puts in a document of its own: scalar and nested
\* fields, a nested field whose last sub-field is empty, a stale CRC
\* field, an empty value and an undefined value.
FieldPool ==
  { Field(<<"0", "0">>, "Payload Format Indicator", <<"0", "2">>, Str(<<"0", "1">>)),
    Field(<<"6", "3">>, "CRC16", <<"0", "4">>, Str(<<"A", "B", "C", "D">>)),
    Field(<<"2", "6">>, "Merchant Account Information", Variable,
          Arr(<< Field(<<"0", "0">>, "GUI", <<"1", "4">>, Str(<<"B", "R", ".", "G", "O", "V", ".", "B", "C", "B", ".", "P", "I", "X">>)),
                 Field(<<"0", "1">>, "Key", Variable, Str(<<"k", "@", "x", ".", "i", "o">>)) >>)),
    Field(<<"6", "2">>, "Additional Data Field Template", Variable,
          Arr(<< Field(<<"0", "5">>, "Transaction ID", Variable, Str(<<"t", "1">>)), brCodeTemplate >>)),
    Field(<<"6", "2">>, "Additional Data Field Template", Variable,
          Arr(<< Field(<<"0", "5">>, "Transaction ID", Variable, Str(<<"t", "1">>)),
                 Field(<<"0", "2">>, "Description", Variable, Str(<<>>)) >>)),
    Field(<<"6", "0">>, "Merchant City", Variable, Str(<<>>)),
    Field(<<"5", "9">>, "Merchant Name", Variable, Undefined) }

FieldLists == UNION {[1..n -> FieldPool] : n \in 0..MaxDocFields}

PixDataArgs ==
  { Undefined, Null, Str(<<"0", "0", "0", "2">>), Obj(Undefined), Obj(Null), Obj(Str(<<"0", "0", "0", "2">>)) }
    \cup {Obj(Arr(fields)) : fields \in FieldLists}

\* The strings a client builds itself: every string of at most MaxRawLen
\* characters of RawAlphabet, bare or followed by its own checksum.
RawAlphabet == {"0", "1", "2", "6", "-"}
RawStrings == UNION {[1..n -> RawAlphabet] : n \in 0..MaxRawLen}

PixStringArgs ==
  { Undefined, Null, Num(0), Num(2601), Str(<<>>) }
    \cup {Str(raw) : raw \in RawStrings \ {<<>>}}
    \cup {Str(raw \o calculateCRC16(raw)) : raw \in RawStrings}

\* What a client overwrites a character with to change it: a letter with
\* its lower-case form, "0" with "1", any other character with "0".
toLowerCaseChar(c) ==
  IF \E i \in 1..Len(UpperLetters) : UpperLetters[i] = c
  THEN LowerLetters[IndexOf(c, UpperLetters)]
  ELSE c
Changed(c) ==
  IF toLowerCaseChar(c) # c THEN toLowerCaseChar(c)
  ELSE IF c = "0" THEN "1"
  ELSE "0"

KeyArgsToValidate ==
  { Undefined, Null, Num(529982247), Str(<<>>),
    Str(<<"5", "2", "9", "9", "8", "2", "2", "4", "7", "2", "5">>), Str(<<"5", "2", "9", ".", "9", "8", "2", ".", "2", "4", "7", "-", "2", "5">>),
    Str(<<"2", "3", "4", "8", "4", "2", "2", "5", "0", "0", "0", "1", "6", "6">>), Str(<<"2", "3", ".", "4", "8", "4", ".", "2", "2", "5", "/", "0", "0", "0", "1", "-", "6", "6">>),
    Str(<<"u", "s", "e", "r", "@", "e", "x", "a", "m", "p", "l", "e", ".", "c", "o", "m">>), Str(<<"1", "2", "3", "4", "5", "6", "7", "8", "9", "0", "1", "@", "x", ".", "i", "o">>), Str(<<"a", "1", "2", "3", "4", "5", "6", "7", "@", "8", "9", "0", "1", "2", "3", "4", ".", "c", "o">>),
    Str(<<"u", "s", "e", "r", "@", "@", "e", "x", "a", "m", "p", "l", "e", ".", "c", "o", "m">>), Str(<<"u", "s", "e", "r", "@", "e", "x", "a", "m", "p", "l", "e">>), Str(<<"u", "s", " ", "e", "r", "@", "e", "x", "a", "m", "p", "l", "e", ".", "c", "o", "m">>),
    Str(<<"u", "s", "e", "r", "@", "m", "a", "i", "l", ".", "e", "x", "a", "m", "p", "l", "e", ".", "c", "o", "m">>), Str(<<"@", "e", "x", "a", "m", "p", "l", "e", ".", "c", "o", "m">>), Str(<<"u", "s", "e", "r", "@", ".", "c", "o", "m">>),
    Str(<<"+", "5", "5", "1", "1", "9", "8", "7", "6", "5", "4", "3", "2", "1">>), Str(<<"+", "5", "5", "1", "1", "9", "8", "7", "6", "5", "4", "3", "2">>), Str(<<"+", "5", "5", "1", "1", "9", "8", "7", "6", "5", "4", "3">>),
    Str(<<"+", "5", "5", "1", "1", "9", "8", "7", "6", "5", "4", "3", "2", "1", "0">>), Str(<<"+", "5", "5", "1", "1">>), Str(<<"5", "5", "1", "1", "9", "8", "7", "6", "5", "4", "3", "2", "1">>),
    Str(<<"1", "2", "3", "e", "4", "5", "6", "7", "-", "e", "8", "9", "b", "-", "1", "2", "d", "3", "-", "a", "4", "5", "6", "-", "4", "2", "6", "6", "1", "4", "1", "7", "4", "0", "0", "0">>),
    Str(<<"A", "B", "C", "D", "E", "F", "A", "B", "-", "C", "D", "E", "F", "-", "A", "B", "C", "D", "-", "E", "F", "A", "B", "-", "C", "D", "E", "F", "A", "B", "C", "D", "E", "F", "A", "B">>),
    Str(<<"a", "b", "c", "d", "e", "f", "a", "b", "-", "c", "d", "e", "f", "-", "a", "b", "c", "d", "-", "e", "f", "a", "b", "-", "c", "1", "2", "3", "4", "5", "6", "7", "8", "9", "0", "1">>),
    Str(<<"a", "b", "c", "d", "e", "f", "a", "b", "-", "c", "d", "e", "f", "-", "a", "b", "c", "d", "-", "e", "f", "1", "2", "-", "3", "4", "5", "6", "7", "8", "9", "0", "1", "2", "3", "4">>),
    Str(<<"1", "2", "3", "e", "4", "5", "6", "7", "-", "e", "8", "9", "b", "-", "1", "2", "d", "3", "-", "a", "4", "5", "6", "-", "4", "2", "6", "6", "1", "4", "1", "7", "4", "0", "0">>),
    Str(<<"1", "2", "3", "e", "4", "5", "6", "7", "e", "8", "9", "b", "1", "2", "d", "3", "a", "4", "5", "6", "4", "2", "6", "6", "1", "4", "1", "7", "4", "0", "0", "0">>),
    Str(<<"g", "2", "3", "e", "4", "5", "6", "7", "-", "e", "8", "9", "b", "-", "1", "2", "d", "3", "-", "a", "4", "5", "6", "-", "4", "2", "6", "6", "1", "4", "1", "7", "4", "0", "0", "0">>),
    Str(<<"n", "o", "t", "-", "a", "-", "k", "e", "y">>), Str(<<"1", "2", "3", "4", "5">>), Str(<<"1", "2", "3", "4", "5", "6", "7", "8", "9", "0", "1", "2">>) }

(***************************************************************************)
(* The state before any call, and the calls.                               *)
(***************************************************************************)
Init ==
  /\ params = NoParams
  /\ created = NotCalled
  /\ pixData = Undefined
  /\ encoded = NotCalled
  /\ pixString = Undefined
  /\ origin = "none"
  /\ decoded = NotCalled
  /\ reencoded = NotCalled
  /\ key = Undefined
  /\ keyResult = KeyResult(FALSE, "null", "(not called)")
  /\ crcData = <<>>
  /\ crcResult = <<>>
  /\ changedData = <<>>
  /\ changedResult = <<>>
  /\ fieldId = <<>>
  /\ fieldValue = Undefined
  /\ fieldEncoded = <<>>
  /\ showQRCode = FALSE
  /\ pixCode = Undefined
  /\ paymentData = Undefined
  /\ lastPixCode = Undefined
  /\ qrValue = Undefined
  /\ qrCodeGenerated = FALSE
  /\ errorMessage = <<>>
  /\ isLoading = FALSE
  /\ qrCodeLibraryEncode = Undefined
  /\ loads = <<>>
  /\ hostCalls = 0
  /\ last = NoComponentCall
  /\ pixCodec = CodecCallsTable

\* No call has been made yet.
Idle ==
  /\ created.outcome = "not called"
  /\ encoded.outcome = "not called"
  /\ decoded.outcome = "not called"
  /\ keyResult.error = "(not called)"
  /\ crcResult = <<>>
  /\ fieldEncoded = <<>>
  /\ hostCalls = 0

\* PixCodec.createPayment(p)
CreatePayment(p) ==
  /\ Idle
  /\ params' = p
  /\ created' = createPayment(p)
  /\ UNCHANGED <<pixData, encoded, pixString, origin, decoded, key, keyResult>>
  /\ UNCHANGED <<reencoded, crcVars, fieldVars, componentVars>>

\* PixCodec.encode(d) on the document createPayment returned
EncodeCreated ==
  /\ created.outcome = "returned"
  /\ encoded.outcome = "not called"
  /\ pixData' = created.ret
  /\ encoded' = encode(created.ret)
  /\ UNCHANGED <<params, created, pixString, origin, decoded, key, keyResult>>
  /\ UNCHANGED <<reencoded, crcVars, fieldVars, componentVars>>

\* PixCodec.encode(d) on a document of the client
EncodeDocument(d) ==
  /\ Idle
  /\ pixData' = d
  /\ encoded' = encode(d)
  /\ UNCHANGED <<params, created, pixString, origin, decoded, key, keyResult>>
  /\ UNCHANGED <<reencoded, crcVars, fieldVars, componentVars>>

\* PixCodec.decode(s) on the string encode returned
DecodeEncoded ==
  /\ encoded.outcome = "returned"
  /\ decoded.outcome = "not called"
  /\ pixString' = encoded.ret
  /\ origin' = "encode"
  /\ decoded' = decode(encoded.ret)
  /\ UNCHANGED <<params, created, pixData, encoded, key, keyResult>>
  /\ UNCHANGED <<reencoded, crcVars, fieldVars, componentVars>>

\* PixCodec.decode(s) on the string encode returned with the i-th of its
\* last four characters changed
DecodeTampered(i) ==
  /\ encoded.outcome = "returned"
  /\ decoded.outcome = "not called"
  /\ LET s == encoded.ret.s
         at == Len(s) - 4 + i
         tampered == Str([s EXCEPT ![at] = Changed(s[at])])
     IN /\ pixString' = tampered
        /\ decoded' = decode(tampered)
  /\ origin' = "tampered"
  /\ UNCHANGED <<params, created, pixData, encoded, key, keyResult>>
  /\ UNCHANGED <<reencoded, crcVars, fieldVars, componentVars>>

\* PixCodec.decode(s) on a value of the client
DecodeString(s) ==
  /\ Idle
  /\ pixString' = s
  /\ origin' = "client"
  /\ decoded' = decode(s)
  /\ UNCHANGED <<params, created, pixData, encoded, key, keyResult>>
  /\ UNCHANGED <<reencoded, crcVars, fieldVars, componentVars>>

\* PixCodec.encode(d) on the document decode returned
EncodeDecoded ==
  /\ decoded.outcome = "returned"
  /\ reencoded.outcome = "not called"
  /\ reencoded' = encode(decoded.ret)
  /\ UNCHANGED <<params, created, pixData, encoded, pixString, origin, decoded, key, keyResult>>
  /\ UNCHANGED <<crcVars, fieldVars, componentVars>>

\* PixCodec.validateKey(k)
ValidateKey(k) ==
  /\ Idle
  /\ key' = k
  /\ keyResult' = validateKey(k)
  /\ UNCHANGED <<params, created, pixData, encoded, pixString, origin, decoded>>
  /\ UNCHANGED <<reencoded, crcVars, fieldVars, componentVars>>

Next ==
  \/ Idle /\ \E p \in ParamArgs : CreatePayment(p)
  \/ EncodeCreated
  \/ Idle /\ \E d \in PixDataArgs : EncodeDocument(d)
  \/ DecodeEncoded
  \/ \E i \in 1..4 : DecodeTampered(i)
  \/ Idle /\ \E s \in PixStringArgs : DecodeString(s)
  \/ EncodeDecoded
  \/ Idle /\ \E k \in KeyArgsToValidate : ValidateKey(k)

Spec == Init /\ [][Next]_vars


(***************************************************************************)
(* The functions of the codec by themselves.  A client computes the        *)
(* checksum of a string and then that of the same string with one          *)
(* character replaced; another encodes a payment and decodes the string    *)
(* with one character of the part before the checksum replaced; another    *)
(* encodes one field.                                                      *)
(***************************************************************************)
MaxCrcLen == 2   \* characters in a string the checksum is computed for

CrcAlphabet == {"0", "9", "A", "U+00FF"}
CheckString == <<"1", "2", "3", "4", "5", "6", "7", "8", "9">>
CrcStrings == UNION {[1..n -> CrcAlphabet] : n \in 0..MaxCrcLen} \cup {CheckString}

\* The characters a client replaces a character with.
Replacements == {"0", "1", "A", "U+0130", "U+0141"}

\* calculateCRC16(data)
Checksum(data) ==
  /\ Idle
  /\ crcData' = data
  /\ crcResult' = calculateCRC16(data)
  /\ UNCHANGED <<changedData, changedResult>>
  /\ UNCHANGED <<clientVars, fieldVars, componentVars>>

\* calculateCRC16 on the same string with its i-th character replaced by c
ChecksumChanged(i, c) ==
  /\ crcResult # <<>>
  /\ changedResult = <<>>
  /\ i \in 1..Len(crcData)
  /\ c # crcData[i]
  /\ changedData' = [crcData EXCEPT ![i] = c]
  /\ changedResult' = calculateCRC16([crcData EXCEPT ![i] = c])
  /\ UNCHANGED <<crcData, crcResult>>
  /\ UNCHANGED <<clientVars, fieldVars, componentVars>>

\* PixCodec.decode(s) on the string encode returned with the i-th character
\* of the part before its checksum replaced by c
DecodeChanged(i, c) ==
  /\ encoded.outcome = "returned"
  /\ decoded.outcome = "not called"
  /\ i \in 1..Len(encoded.ret.s) - 4
  /\ c # encoded.ret.s[i]
  /\ LET changed == Str([encoded.ret.s EXCEPT ![i] = c])
     IN /\ pixString' = changed
        /\ decoded' = decode(changed)
  /\ origin' = "changed"
  /\ UNCHANGED <<params, created, pixData, encoded, key, keyResult>>
  /\ UNCHANGED <<reencoded, crcVars, fieldVars, componentVars>>

\* The positions a character is replaced at: MaxChangeAt bounds them.
MaxChangeAt == 40
ChangeChars == {"1", "U+0130"}

\* The fields encoded by themselves: scalar values of every length up to
\* one past the two-digit ceiling, and nested values whose content grows to
\* one past it.
FieldIds == {<<"0", "0">>, <<"5", "9">>}
ScalarValues == {Str(Fill("x", n)) : n \in 0..MaxFieldLen + 1}
NestedValues ==
  { Arr(<<>>),
    Arr(<<Field(<<"0", "5">>, "Transaction ID", Variable, Str(<<"t", "1">>)), brCodeTemplate>>),
    Arr(<<Field(<<"0", "5">>, "Transaction ID", Variable, Undefined), brCodeTemplate>>),
    Arr(<<Field(<<>>, "Transaction ID", Variable, Str(<<"t", "1">>)), brCodeTemplate>>) }
    \cup {Arr(<<Field(<<"0", "0">>, "GUI", <<"1", "4">>, Str(<<"B", "R", ".", "G", "O", "V", ".", "B", "C", "B", ".", "P", "I", "X">>)),
                Field(<<"0", "1">>, "Key", Variable, Str(Fill("k", n)))>>) : n \in 0..KeyRoom + 1}

\* encodeField(id, value)
EncodeField(id, value) ==
  /\ Idle
  /\ fieldId' = id
  /\ fieldValue' = value
  /\ fieldEncoded' = encodeField(id, value)
  /\ UNCHANGED <<clientVars, crcVars, componentVars>>

UnitNext ==
  \/ Idle /\ \E data \in CrcStrings : Checksum(data)
  \/ \E i \in 1..Len(CheckString), c \in Replacements : ChecksumChanged(i, c)
  \/ Idle /\ \E p \in {VectorParams, PlainParams} : CreatePayment(p)
  \/ EncodeCreated
  \/ \E i \in 1..MaxChangeAt, c \in ChangeChars : DecodeChanged(i, c)
  \/ Idle /\ \E id \in FieldIds, value \in ScalarValues \cup NestedValues :
               EncodeField(id, value)

UnitSpec == Init /\ [][UnitNext]_vars

(***************************************************************************)
(* The component and its host.  The host sets paymentData, calls           *)
(* generatePixCodeFromPaymentData, connects the component and turns        *)
(* showQRCode on; the script of each loadQRCodeLibrary settles at some     *)
(* time, its continuation runs later, and the framework calls              *)
(* renderedCallback at any time.                                           *)
(***************************************************************************)
MaxHostCalls == 3   \* calls of methods the host makes on one component
MaxLoads == 1       \* script loads in flight at a time

\* What the imported codec does for the payment data.
CodecCallsFor(data) == pixCodec[data]

ScriptFailedMessage == <<"S", "c", "r", "i", "p", "t", " ", "l", "o", "a", "d", " ", "f", "a", "i", "l", "e", "d">>
EncoderFailedMessage == <<"I", "n", "v", "a", "l", "i", "d", " ", "i", "n", "p", "u", "t">>

Fields == [pixCode |-> pixCode, errorMessage |-> errorMessage,
           qrCodeGenerated |-> qrCodeGenerated]

\* this.generatePixCodeFromPaymentData(data), called by via.
GeneratePixCode(data, via) ==
  LET done == generatePixCodeFromPaymentData(data, CodecCallsFor(data), Fields)
  IN /\ pixCode' = done.fields.pixCode
     /\ errorMessage' = done.fields.errorMessage
     /\ qrCodeGenerated' = done.fields.qrCodeGenerated
     /\ last' = ComponentCall("generatePixCodeFromPaymentData", via, data,
                              done.creating, done.encoding, Fields)

\* set paymentData(value)
SetPaymentData(data) ==
  /\ hostCalls < MaxHostCalls
  /\ hostCalls' = hostCalls + 1
  /\ paymentData' = data
  /\ GeneratePixCode(data, "setter")
  /\ UNCHANGED <<showQRCode, lastPixCode, qrValue, isLoading, qrCodeLibraryEncode, loads>>
  /\ UNCHANGED <<clientVars, crcVars, fieldVars, pixCodec>>

\* generatePixCodeFromPaymentData(data), called by the host
GenerateDirectly(data) ==
  /\ hostCalls < MaxHostCalls
  /\ hostCalls' = hostCalls + 1
  /\ GeneratePixCode(data, "direct")
  /\ UNCHANGED <<showQRCode, paymentData, lastPixCode, qrValue, isLoading,
                 qrCodeLibraryEncode, loads>>
  /\ UNCHANGED <<clientVars, crcVars, fieldVars, pixCodec>>

\* connectedCallback(): loadQRCodeLibrary() runs up to its await, then
\* generatePixCodeFromPaymentData(this._paymentData)
ConnectedCallback ==
  /\ hostCalls < MaxHostCalls
  /\ Len(loads) < MaxLoads
  /\ hostCalls' = hostCalls + 1
  /\ isLoading' = TRUE
  /\ loads' = Append(loads, "awaiting")
  /\ GeneratePixCode(paymentData, "connectedCallback")
  /\ UNCHANGED <<showQRCode, paymentData, lastPixCode, qrValue, qrCodeLibraryEncode>>
  /\ UNCHANGED <<clientVars, crcVars, fieldVars, pixCodec>>

\* The host sets showQRCode.
ShowQRCode ==
  /\ ~showQRCode
  /\ showQRCode' = TRUE
  /\ UNCHANGED <<pixCode, paymentData, lastPixCode, qrValue, qrCodeGenerated, errorMessage,
                 isLoading, qrCodeLibraryEncode, loads, hostCalls, last>>
  /\ UNCHANGED <<clientVars, crcVars, fieldVars, pixCodec>>

\* The promise of loadScript settles for the i-th load: resolved with
\* window.encodeQR defined ("resolved"), resolved without it ("empty"), or
\* rejected.
ScriptSettles(i, how) ==
  /\ i \in 1..Len(loads)
  /\ loads[i] = "awaiting"
  /\ loads' = [loads EXCEPT ![i] = how]
  /\ UNCHANGED <<showQRCode, pixCode, paymentData, lastPixCode, qrValue, qrCodeGenerated,
                 errorMessage, isLoading, qrCodeLibraryEncode, hostCalls, last>>
  /\ UNCHANGED <<clientVars, crcVars, fieldVars, pixCodec>>

\* loadQRCodeLibrary() after its await, for the i-th load in flight, which
\* it ends.
LoadContinues(i) ==
  /\ i \in 1..Len(loads)
  /\ loads[i] \in {"resolved", "empty", "rejected"}
  /\ loads' = SubSeq(loads, 1, i - 1) \o SubSeq(loads, i + 1, Len(loads))
  /\ LET done == loadQRCodeLibrary(loads[i], ScriptFailedMessage, pixCode,
                                   Loaded(qrCodeLibraryEncode, errorMessage, qrValue, isLoading))
     IN /\ qrCodeLibraryEncode' = done.qrCodeLibraryEncode
        /\ errorMessage' = done.errorMessage
        /\ qrValue' = done.qrValue
        /\ isLoading' = done.isLoading
  /\ last' = ComponentCall("loadQRCodeLibrary", loads[i], qrCodeLibraryEncode,
                           NotCalled, NotCalled, Fields)
  /\ UNCHANGED <<showQRCode, pixCode, paymentData, lastPixCode, qrCodeGenerated, hostCalls>>
  /\ UNCHANGED <<clientVars, crcVars, fieldVars, pixCodec>>

\* renderedCallback(), and generateQRCode() when it calls it; the encoder
\* returns the image or throws.
RenderedCallback(encoder) ==
  /\ shouldGenerateQRCode(qrCodeLibraryEncode, pixCode, showQRCode, lastPixCode,
                          qrCodeGenerated)
  /\ IF encoder = "returns"
     THEN /\ qrCodeGenerated' = TRUE
          /\ lastPixCode' = pixCode
          /\ errorMessage' = <<>>
     ELSE /\ errorMessage' = QRFailedPrefix \o EncoderFailedMessage
          /\ UNCHANGED <<qrCodeGenerated, lastPixCode>>
  /\ last' = ComponentCall("generateQRCode", encoder, qrCodeLibraryEncode,
                           NotCalled, NotCalled, Fields)
  /\ UNCHANGED <<showQRCode, pixCode, paymentData, qrValue, isLoading,
                 qrCodeLibraryEncode, loads, hostCalls>>
  /\ UNCHANGED <<clientVars, crcVars, fieldVars, pixCodec>>

ComponentNext ==
  \/ \E data \in PaymentDataArgs : SetPaymentData(data)
  \/ \E data \in PaymentDataArgs : GenerateDirectly(data)
  \/ ConnectedCallback
  \/ ShowQRCode
  \/ \E i \in 1..MaxLoads, how \in {"resolved", "empty", "rejected"} : ScriptSettles(i, how)
  \/ \E i \in 1..MaxLoads : LoadContinues(i)
  \/ \E encoder \in {"returns", "throws"} : RenderedCallback(encoder)

ComponentSpec == Init /\ [][ComponentNext]_vars

\* The continuation of a load runs once its promise has settled.
ComponentLive ==
  ComponentSpec /\ \A i \in 1..MaxLoads : WF_vars(LoadContinues(i))
(***************************************************************************)
(* Properties.                                                             *)
(***************************************************************************)
\* The field list of a document value.
FieldsOf(doc) == doc.value.a

\* Two field lists have the same ids and the same values at every nesting
\* level: nested lists compared as nested lists, labels ignored.
RECURSIVE SameTree(_, _)
SameTree(a, b) ==
  /\ Len(a) = Len(b)
  /\ \A i \in 1..Len(a) :
       /\ a[i].id = b[i].id
       /\ a[i].value.t = b[i].value.t
       /\ IF a[i].value.t = "array"
          THEN SameTree(a[i].value.a, b[i].value.a)
          ELSE a[i].value.s = b[i].value.s

\* A chain createPayment, encode, decode of the string as encode returned it.
RoundTripDone ==
  /\ created.outcome = "returned"
  /\ encoded.outcome = "returned"
  /\ origin = "encode"

Last(s) == s[Len(s)]
Front(s) == SubSeq(s, 1, Len(s) - 1)

\* The field list is fields followed by the CRC field 63 holding crc.
EndsWithCrc(fields, crc) ==
  /\ fields # <<>>
  /\ Last(fields).id = CrcId
  /\ Last(fields).value.t = "string"
  /\ Last(fields).value.s = crc

\* The lengths of the nested content of fields 26 and 62 that createPayment
\* builds from p.
StrLen(v) == IF v.t = "string" THEN Len(v.s) ELSE 0
SubFieldLen(v) == IF Truthy(v) THEN 4 + StrLen(v) ELSE 0
Nested26Len(p) == 22 + StrLen(p.key)
Nested62Len(p) == SubFieldLen(p.transactionId) + SubFieldLen(p.description) + 34
HasField62(p) == Truthy(p.transactionId) \/ Truthy(p.description)
NestedFits(p) ==
  /\ Nested26Len(p) <= MaxFieldLen
  /\ HasField62(p) => Nested62Len(p) <= MaxFieldLen

\* The document as decode gives it back: the sub-template 62.50 is the
\* string of its two tuples, not a list.
BrCodeString == <<"0", "0", "1", "7", "B", "R", ".", "G", "O", "V", ".", "B", "C", "B", ".", "B", "R", "C", "O", "D", "E", "0", "1", "0", "5", "1", ".", "0", ".", "0">>
AsDecoded(fields) ==
  [i \in 1..Len(fields) |->
     IF fields[i].id = <<"6", "2">>
     THEN [fields[i] EXCEPT !.value =
             Arr([j \in 1..Len(fields[i].value.a) |->
                    IF fields[i].value.a[j].id = <<"5", "0">>
                    THEN [fields[i].value.a[j] EXCEPT !.value = Str(BrCodeString)]
                    ELSE fields[i].value.a[j]])]
     ELSE fields[i]]

\* C1 as stated: decode(encode(d)) gives d's ids and values back at every
\* nesting level, nested lists as nested lists, followed by the CRC field 63
\* with the CRC encode appended.
C1_RoundTripAsStated ==
  RoundTripDone =>
    /\ decoded.outcome = "returned"
    /\ SameTree(Front(FieldsOf(decoded.ret)), FieldsOf(created.ret))
    /\ EndsWithCrc(FieldsOf(decoded.ret), sliceLast4(encoded.ret.s))

\* C1 amended: when the nested content of fields 26 and 62 is at most 99
\* characters long, decode(encode(d)) gives d's ids and values back, the
\* sub-template 62.50 as the string of its content and every other nested
\* list as a nested list, followed by the CRC field 63 with the CRC encode
\* appended.
C1_RoundTrip ==
  (RoundTripDone /\ NestedFits(params)) =>
    /\ decoded.outcome = "returned"
    /\ SameTree(Front(FieldsOf(decoded.ret)), AsDecoded(FieldsOf(created.ret)))
    /\ EndsWithCrc(FieldsOf(decoded.ret), sliceLast4(encoded.ret.s))

\* A round trip of a document with an amount and a field 62 whose nested
\* content is exactly 99 characters long.
C1_Witness ==
  /\ RoundTripDone
  /\ decoded.outcome = "returned"
  /\ Truthy(params.amount)
  /\ HasField62(params)
  /\ Nested62Len(params) = MaxFieldLen

\* The decimal digits of a length as the wire format writes them: two, or
\* three from 100 on.
RefDigit(n) == DigitChars[n + 1]
RefLength(n) ==
  IF n < 100 THEN <<RefDigit(n \div 10), RefDigit(n % 10)>>
  ELSE <<RefDigit(n \div 100), RefDigit((n \div 10) % 10), RefDigit(n % 10)>>

\* The reference TLV encoding of a field and of a field list.
RECURSIVE RefTLV(_)
RECURSIVE RefTLVList(_)
RefTLVList(fields) ==
  IF fields = <<>> THEN <<>> ELSE RefTLV(Head(fields)) \o RefTLVList(Tail(fields))
RefTLV(field) ==
  LET content == IF field.value.t = "array" THEN RefTLVList(field.value.a)
                 ELSE field.value.s
  IN field.id \o RefLength(Len(content)) \o content

\* Every field, at every level, has an id and a string or a list as value.
RECURSIVE WellFormed(_)
WellFormed(fields) ==
  \A i \in 1..Len(fields) :
    /\ fields[i].id # <<>>
    /\ fields[i].value.t \in {"string", "array"}
    /\ fields[i].value.t = "array" => WellFormed(fields[i].value.a)

NotCrcField(field) == field.id # <<"6", "3">>
RefEncode(fields) ==
  LET body == RefTLVList(SelectSeq(fields, NotCrcField)) \o <<"6", "3", "0", "4">>
  IN body \o calculateCRC16(body)

\* encode has just returned for a document of well-formed fields.
EncodedWellFormed ==
  /\ encoded.outcome = "returned"
  /\ decoded.outcome = "not called"
  /\ WellFormed(FieldsOf(pixData))

\* C2: encode(d) is the TLV encoding of every top-level field whose id is
\* not 63, in input order, then "6304", then the CRC16 of all that; it is
\* the same with d's fields 63 removed, and ends with "6304" and four
\* upper-case hexadecimal digits.
C2_EncodeIsReference ==
  EncodedWellFormed =>
    LET out == encoded.ret.s
    IN /\ out = RefEncode(FieldsOf(pixData))
       /\ Str(out) = encode(Obj(Arr(SelectSeq(FieldsOf(pixData), NotCrcField)))).ret
       /\ Len(out) >= 8
       /\ SubSeq(out, Len(out) - 7, Len(out) - 4) = <<"6", "3", "0", "4">>
       /\ \A i \in Len(out) - 3..Len(out) : out[i] \in UpperHexDigit

\* encode returned for a document that holds a field 63 before another
\* field.
C2_Witness ==
  /\ EncodedWellFormed
  /\ Len(FieldsOf(pixData)) >= 2
  /\ FieldsOf(pixData)[1].id = <<"6", "3">>
  /\ FieldsOf(pixData)[2].id # <<"6", "3">>

FinalKey ==
  <<"0", "0", "0", "2", "0", "1", "2", "6", "3", "6", "0", "0", "1", "4", "B", "R", ".", "G", "O", "V", ".", "B", "C", "B", ".", "P", "I", "X", "0", "1", "1", "4", "2", "3", "4", "8", "4", "2", "2", "5", "0", "0", "0", "1", "6", "6", "5", "2", "0", "4", "0", "0", "0", "0", "5", "3", "0", "3", "9", "8", "6", "5", "4", "0", "6", "1", "2", "3", ".", "4", "5", "5", "8", "0", "2", "B", "R", "5", "9", "0", "7", "W", "I", "S", "E", "F", "O", "X", "6", "0", "1", "4", "B", "E", "L", "O", " ", "H", "O", "R", "I", "Z", "O", "N", "T", "E", "6", "2", "4", "5", "0", "5", "0", "7", "r", "e", "f", "1", "2", "3", "4", "5", "0", "3", "0", "0", "0", "1", "7", "B", "R", ".", "G", "O", "V", ".", "B", "C", "B", ".", "B", "R", "C", "O", "D", "E", "0", "1", "0", "5", "1", ".", "0", ".", "0", "6", "3", "0", "4", "0", "D", "3", "F">>

\* The top-level tuples of a wire string read by their length fields: the
\* ids in order, provided every length field is two digits and the tuples
\* fill the string exactly.
RECURSIVE TupleIds(_)
TupleIds(s) ==
  IF Len(s) < 4 \/ s[3] \notin Digit \/ s[4] \notin Digit THEN <<>>
  ELSE LET n == 10 * DigitValue(s[3]) + DigitValue(s[4])
       IN IF 4 + n > Len(s) THEN <<>>
          ELSE <<SubSeq(s, 1, 2)>> \o TupleIds(SubSeq(s, 5 + n, Len(s)))

RECURSIVE TuplesFill(_)
TuplesFill(s) ==
  \/ s = <<>>
  \/ /\ Len(s) >= 4 /\ s[3] \in Digit /\ s[4] \in Digit
     /\ 4 + 10 * DigitValue(s[3]) + DigitValue(s[4]) <= Len(s)
     /\ TuplesFill(SubSeq(s, 5 + 10 * DigitValue(s[3]) + DigitValue(s[4]), Len(s)))

VectorOrder ==
  <<<<"0", "0">>, <<"2", "6">>, <<"5", "2">>, <<"5", "3">>, <<"5", "4">>, <<"5", "8">>, <<"5", "9">>, <<"6", "0">>, <<"6", "2">>, <<"6", "3">>>>

VectorEncoded ==
  /\ params = VectorParams
  /\ encoded.outcome = "returned"

VectorHolds ==
  /\ encoded.ret.s = FinalKey
  /\ TuplesFill(encoded.ret.s)
  /\ TupleIds(encoded.ret.s) = VectorOrder
  /\ sliceLast4(encoded.ret.s) = <<"0", "D", "3", "F">>

\* C3 as stated: the vector encodes to the literal string, which is 158
\* characters long, with the field order 00 .. 63, true length prefixes and
\* the CRC 0D3F.
C3_VectorAsStated ==
  VectorEncoded => (VectorHolds /\ Len(encoded.ret.s) = 158)

\* C3 amended: the vector encodes to the literal string, which is 163
\* characters long, with the field order 00, 26, 52, 53, 54, 58, 59, 60, 62,
\* 63, every length prefix the length of the value that follows it, and the
\* CRC 0D3F.
C3_Vector ==
  VectorEncoded => (VectorHolds /\ Len(encoded.ret.s) = 163)

\* encode returned for the document createPayment built from the vector.
C3_Witness == VectorEncoded /\ created.outcome = "returned" /\ pixData = created.ret

\* decode was called with a non-empty string.
DecodedString ==
  /\ decoded.outcome # "not called"
  /\ pixString.t = "string"
  /\ pixString.s # <<>>

\* The last four characters of s (all of s when it is shorter) and the
\* characters before them.
Last4(s) == IF Len(s) <= 4 THEN s ELSE SubSeq(s, Len(s) - 3, Len(s))
Before4(s) == IF Len(s) <= 4 THEN <<>> ELSE SubSeq(s, 1, Len(s) - 4)

ChecksumError(computed, provided) ==
  /\ decoded.outcome = "threw"
  /\ decoded.ret = Undefined
  /\ decoded.message = <<"I", "n", "v", "a", "l", "i", "d", " ", "C", "R", "C", ".", " ", "E", "x", "p", "e", "c", "t", "e", "d", ":", " ">> \o computed \o <<",", " ", "G", "o", "t", ":", " ">> \o provided

\* C4: decode of a non-empty string fails with the checksum error, naming
\* the computed and the provided CRC and returning nothing, exactly when its
\* last four characters differ from the CRC16 of the characters before
\* them; so it fails on an encode output with one of its last four
\* characters changed.
C4_ChecksumValidation ==
  DecodedString =>
    LET computed == calculateCRC16(Before4(pixString.s))
        provided == Last4(pixString.s)
        failed == ChecksumError(computed, provided)
    IN /\ failed <=> (provided # computed)
       /\ origin = "tampered" => failed

\* decode failed on an encode output whose last characters differ from the
\* CRC only in the case of a letter.
C4_Witness ==
  /\ DecodedString
  /\ origin = "tampered"
  /\ decoded.outcome = "threw"
  /\ toUpperCase(Last4(pixString.s)) = sliceLast4(encoded.ret.s)

\* C5: when decode succeeds on s, the last field it returns is the CRC
\* field: id 63, length 04 and the last four characters of s as value.
C5_LastFieldIsCrc ==
  (DecodedString /\ decoded.outcome = "returned") =>
    /\ FieldsOf(decoded.ret) # <<>>
    /\ Last(FieldsOf(decoded.ret)).id = <<"6", "3">>
    /\ Last(FieldsOf(decoded.ret)).length = <<"0", "4">>
    /\ Last(FieldsOf(decoded.ret)).value = Str(Last4(pixString.s))
    /\ \A i \in 1..4 : Last4(pixString.s)[i] \in UpperHexDigit

\* The ids of a field list, in order.
Ids(fields) == [i \in 1..Len(fields) |-> fields[i].id]

\* The document is absent, or its field list is absent or not an array.
BadDocument(d) == d.t # "object" \/ d.value.t # "array"

EncodeRejected ==
  /\ encoded.outcome = "threw"
  /\ encoded.message = <<"I", "n", "v", "a", "l", "i", "d", " ", "P", "I", "X", " ", "d", "a", "t", "a", " ", "f", "o", "r", "m", "a", "t", ".", " ", "E", "x", "p", "e", "c", "t", "e", "d", " ", "o", "b", "j", "e", "c", "t", " ", "w", "i", "t", "h", " ", "v", "a", "l", "u", "e", " ", "a", "r", "r", "a", "y", ".">>
  /\ encoded.ret = Undefined
  /\ encoded.calls = <<>>

DecodeRejected ==
  /\ decoded.outcome = "threw"
  /\ decoded.message = <<"I", "n", "v", "a", "l", "i", "d", " ", "P", "I", "X", " ", "s", "t", "r", "i", "n", "g", ".", " ", "E", "x", "p", "e", "c", "t", "e", "d", " ", "n", "o", "n", "-", "e", "m", "p", "t", "y", " ", "s", "t", "r", "i", "n", "g", ".">>
  /\ decoded.ret = Undefined
  /\ decoded.calls = <<>>

\* C6: encode fails with the invalid-input error, returning no string, when
\* the document is absent or its field list is absent or not an array;
\* decode fails with the invalid-input error when its input is missing or
\* not a string, before it computes a checksum or scans a field; a call that
\* fails returns nothing.
C6_ArgumentValidation ==
  /\ (encoded.outcome # "not called" /\ BadDocument(pixData)) => EncodeRejected
  /\ (decoded.outcome # "not called" /\ pixString.t # "string") => DecodeRejected
  /\ \A call \in {created, encoded, decoded} :
       call.outcome # "returned" => call.ret = Undefined

\* encode was called with an object that has no field list.
C6_Witness ==
  /\ encoded.outcome = "threw"
  /\ pixData = Obj(Undefined)

\* createPayment was called.
Created == created.outcome # "not called"

MissingRequired(p) ==
  ~Truthy(p.key) \/ ~Truthy(p.merchantName) \/ ~Truthy(p.merchantCity)
NoOptional(p) ==
  p.amount = Undefined /\ p.transactionId = Undefined /\ p.description = Undefined

\* The upper-case form of the merchant names and cities the clients pass.
UpperCased(s) == IF s = <<"J", "o", "a", "o", " ", "S", "i", "l", "v", "a">> THEN <<"J", "O", "A", "O", " ", "S", "I", "L", "V", "A">> ELSE s

SevenIds == <<<<"0", "0">>, <<"2", "6">>, <<"5", "2">>, <<"5", "3">>, <<"5", "8">>, <<"5", "9">>, <<"6", "0">>>>

\* C7: createPayment fails with the missing-parameters error whenever key,
\* merchantName or merchantCity is absent or empty, whatever the optional
\* parameters; with exactly those three it returns the seven fields 00, 26,
\* 52, 53, 58, 59, 60 in that order, 26 holding 00 = "BR.GOV.BCB.PIX" and
\* 01 = the key unchanged, 59 and 60 the upper-cased name and city.
C7_RequiredFields ==
  Created =>
    /\ MissingRequired(params) =>
         /\ created.outcome = "threw"
         /\ created.message =
              <<"M", "i", "s", "s", "i", "n", "g", " ", "r", "e", "q", "u", "i", "r", "e", "d", " ", "p", "a", "r", "a", "m", "e", "t", "e", "r", "s", ":", " ", "k", "e", "y", ",", " ", "m", "e", "r", "c", "h", "a", "n", "t", "N", "a", "m", "e", ",", " ", "a", "n", "d", " ", "m", "e", "r", "c", "h", "a", "n", "t", "C", "i", "t", "y", " ", "a", "r", "e", " ", "r", "e", "q", "u", "i", "r", "e", "d">>
    /\ ~MissingRequired(params) => created.outcome = "returned"
    /\ (~MissingRequired(params) /\ NoOptional(params)) =>
         LET fields == FieldsOf(created.ret)
         IN /\ Ids(fields) = SevenIds
            /\ fields[2].value.t = "array"
            /\ Ids(fields[2].value.a) = <<<<"0", "0">>, <<"0", "1">>>>
            /\ fields[2].value.a[1].value = Str(<<"B", "R", ".", "G", "O", "V", ".", "B", "C", "B", ".", "P", "I", "X">>)
            /\ fields[2].value.a[2].value = params.key
            /\ fields[6].value = Str(UpperCased(params.merchantName.s))
            /\ fields[7].value = Str(UpperCased(params.merchantCity.s))

\* createPayment returned for a lower-case key and name and nothing else
\* but the city.
C7_Witness ==
  /\ created.outcome = "returned"
  /\ NoOptional(params)
  /\ params.key = Str(<<"j", "o", "a", "o", "@", "m", "a", "i", "l", ".", "b", "r">>)
  /\ params.merchantName = Str(<<"J", "o", "a", "o", " ", "S", "i", "l", "v", "a">>)

\* C8: whenever an amount is provided (a non-empty string), the document
\* holds exactly one field 54, right after 53 and right before 58, with 58,
\* 59, 60 in order after it, whether or not field 62 follows: the order is
\* 00, 26, 52, 53, 54, 58, 59, 60 and then 62 if there is one.
C8_AmountPlacement ==
  (created.outcome = "returned" /\ Truthy(params.amount)) =>
    LET ids == Ids(FieldsOf(created.ret))
    IN /\ Cardinality({i \in 1..Len(ids) : ids[i] = <<"5", "4">>}) = 1
       /\ SubSeq(ids, 1, 8) =
            <<<<"0", "0">>, <<"2", "6">>, <<"5", "2">>, <<"5", "3">>, <<"5", "4">>, <<"5", "8">>, <<"5", "9">>, <<"6", "0">>>>
       /\ Len(ids) = IF HasField62(params) THEN 9 ELSE 8
       /\ HasField62(params) => ids[9] = <<"6", "2">>

\* createPayment returned for an amount and a transaction id.
C8_Witness ==
  /\ created.outcome = "returned"
  /\ Truthy(params.amount)
  /\ Truthy(params.transactionId)

\* The sub-fields of field 62 for p: their ids and values.
Expected62(p) ==
  (IF Truthy(p.transactionId) THEN << <<<<"0", "5">>, p.transactionId>> >> ELSE <<>>)
  \o (IF Truthy(p.description) THEN << <<<<"0", "2">>, p.description>> >> ELSE <<>>)

\* C9: field 62 is present exactly when transactionId or description is
\* provided (non-empty); it is then the last top-level field, with the
\* sub-fields 05 = transactionId if provided, 02 = description if provided,
\* and 50 last, which holds 00 = "BR.GOV.BCB.BRCODE" then 01 = "1.0.0".
C9_AdditionalData ==
  created.outcome = "returned" =>
    LET fields == FieldsOf(created.ret)
        ids == Ids(fields)
        subs == Last(fields).value.a
        want == Expected62(params)
    IN /\ (\E i \in 1..Len(ids) : ids[i] = <<"6", "2">>) <=> HasField62(params)
       /\ HasField62(params) =>
            /\ Cardinality({i \in 1..Len(ids) : ids[i] = <<"6", "2">>}) = 1
            /\ Last(ids) = <<"6", "2">>
            /\ Last(fields).value.t = "array"
            /\ Len(subs) = Len(want) + 1
            /\ \A i \in 1..Len(want) :
                 subs[i].id = want[i][1] /\ subs[i].value = want[i][2]
            /\ Last(subs).id = <<"5", "0">>
            /\ Last(subs).value.t = "array"
            /\ Ids(Last(subs).value.a) = <<<<"0", "0">>, <<"0", "1">>>>
            /\ Last(subs).value.a[1].value = Str(<<"B", "R", ".", "G", "O", "V", ".", "B", "C", "B", ".", "B", "R", "C", "O", "D", "E">>)
            /\ Last(subs).value.a[2].value = Str(<<"1", ".", "0", ".", "0">>)

\* createPayment returned for a transaction id and a description.
C9_Witness ==
  /\ created.outcome = "returned"
  /\ Truthy(params.transactionId)
  /\ Truthy(params.description)

\* validateKey was called with a non-empty string.
ValidatedString ==
  /\ keyResult.error # "(not called)"
  /\ key.t = "string"
  /\ key.s # <<>>

DigitCount(s) == Cardinality({i \in 1..Len(s) : s[i] \in Digit})
Positions(c, s) == {i \in 1..Len(s) : s[i] = c}

\* local@domain.tld: no white space, one "@", something before it, and a
\* "." after it with something on both sides.
LooksLikeEmail(s) ==
  /\ Positions(" ", s) = {}
  /\ Cardinality(Positions("@", s)) = 1
  /\ LET at == CHOOSE i \in Positions("@", s) : TRUE
     IN /\ at > 1
        /\ \E dot \in Positions(".", s) : at + 1 < dot /\ dot < Len(s)

\* +55 and then 10 or 11 digits.
LooksLikePhone(s) ==
  \E n \in {10, 11} :
    /\ Len(s) = 3 + n
    /\ s[1] = "+" /\ s[2] = "5" /\ s[3] = "5"
    /\ DigitCount(s) = 2 + n

\* Groups of 8, 4, 4, 4 and 12 hexadecimal digits joined by hyphens.
HexDigitLetters == <<"0", "1", "2", "3", "4", "5", "6", "7", "8", "9", "a", "b", "c", "d", "e", "f", "A", "B", "C", "D", "E", "F">>
HexGroup(s, n) == Len(s) = n /\ \A i \in 1..n : Positions(s[i], HexDigitLetters) # {}
LooksLikeUuid(s) ==
  /\ Positions("-", s) = {9, 14, 19, 24}
  /\ HexGroup(SubSeq(s, 1, 8), 8)
  /\ HexGroup(SubSeq(s, 10, 13), 4)
  /\ HexGroup(SubSeq(s, 15, 18), 4)
  /\ HexGroup(SubSeq(s, 20, 23), 4)
  /\ HexGroup(SubSeq(s, 25, Len(s)), 12)

KeyType(s) ==
  IF DigitCount(s) = 11 THEN "CPF"
  ELSE IF DigitCount(s) = 14 THEN "CNPJ"
  ELSE IF LooksLikeEmail(s) THEN "EMAIL"
  ELSE IF LooksLikePhone(s) THEN "PHONE"
  ELSE IF LooksLikeUuid(s) THEN "RANDOM"
  ELSE "null"

\* C10: a non-empty key with exactly 11 digit characters is a valid CPF and
\* one with exactly 14 a valid CNPJ, whether or not the key also matches
\* the email, phone or UUID pattern; only otherwise is the key itself
\* tested for email, then phone, then UUID; a key matching none is invalid
\* with type null.
C10_ClassificationOrder ==
  ValidatedString =>
    /\ keyResult.type = KeyType(key.s)
    /\ keyResult.isValid <=> (KeyType(key.s) # "null")

\* validateKey returned CPF for a key that has 11 digits and is shaped like
\* an email address.
C10_Witness ==
  /\ ValidatedString
  /\ DigitCount(key.s) = 11
  /\ LooksLikeEmail(key.s)
  /\ keyResult.type = "CPF"


(***************************************************************************)
(* The key classifier on UUID-shaped keys.                                 *)
(***************************************************************************)
\* validateKey was called with a UUID-shaped key.
ValidatedUuid == ValidatedString /\ LooksLikeUuid(key.s)

RandomKey == KeyResult(TRUE, "RANDOM", NoError)

\* C11 as stated: validateKey maps every well-formed UUID-shaped key (groups
\* of 8, 4, 4, 4 and 12 hexadecimal characters joined by hyphens, in any
\* letter case) to {isValid: true, type: RANDOM}.
C11_UuidAsStated == ValidatedUuid => keyResult = RandomKey

\* C11: validateKey maps every well-formed UUID-shaped key that has neither
\* exactly 11 nor exactly 14 decimal digits among its characters to
\* {isValid: true, type: RANDOM}; one with exactly 11 is a valid CPF and one
\* with exactly 14 a valid CNPJ.
C11_Uuid ==
  ValidatedUuid =>
    keyResult = IF DigitCount(key.s) = 11 THEN KeyResult(TRUE, "CPF", NoError)
                ELSE IF DigitCount(key.s) = 14 THEN KeyResult(TRUE, "CNPJ", NoError)
                ELSE RandomKey

\* validateKey returned RANDOM for a UUID-shaped key written in upper case.
C11_Witness ==
  /\ ValidatedUuid
  /\ \E i \in 1..Len(key.s) : key.s[i] \in {"A", "B", "C", "D", "E", "F"}
  /\ keyResult = RandomKey

(***************************************************************************)
(* The checksum against CRC-16/CCITT-FALSE computed on bits: the register  *)
(* is a sequence of 16 bits, most significant first, and the message is    *)
(* fed to it one bit at a time.                                            *)
(***************************************************************************)
\* The w bits of n, most significant first.
Bits(n, w) == [i \in 1..w |-> (n \div (2 ^ (w - i))) % 2]

RefPolynomial == <<0, 0, 0, 1, 0, 0, 0, 0, 0, 0, 1, 0, 0, 0, 0, 1>>   \* x^12 + x^5 + 1
RefInitial == [i \in 1..16 |-> 1]

\* The register after one more message bit.
RefBit(reg, bit) ==
  LET shifted == Tail(reg) \o <<0>>
  IN IF reg[1] # bit
     THEN [i \in 1..16 |-> IF shifted[i] # RefPolynomial[i] THEN 1 ELSE 0]
     ELSE shifted

RECURSIVE RefFeed(_, _)
RefFeed(reg, bits) ==
  IF bits = <<>> THEN reg ELSE RefFeed(RefBit(reg, Head(bits)), Tail(bits))

\* The register after the characters lo..hi of data; the range is split in
\* halves, and the test on reg makes the left half a value first.
RECURSIVE RefRegister(_, _, _, _)
RefRegister(reg, data, lo, hi) ==
  IF reg = <<>> \/ lo > hi THEN reg
  ELSE IF lo = hi THEN RefFeed(reg, Bits(charCodeAt[data[lo]], 8))
  ELSE LET mid == (lo + hi) \div 2
       IN RefRegister(RefRegister(reg, data, lo, mid), data, mid + 1, hi)

UpperHexChars == <<"0", "1", "2", "3", "4", "5", "6", "7", "8", "9", "A", "B", "C", "D", "E", "F">>
RefHex(reg) ==
  [k \in 1..4 |->
     UpperHexChars[1 + 8 * reg[4 * k - 3] + 4 * reg[4 * k - 2] + 2 * reg[4 * k - 1] + reg[4 * k]]]

RefCrc16(data) == RefHex(RefRegister(RefInitial, data, 1, Len(data)))

SingleByte(data) == \A i \in 1..Len(data) : charCodeAt[data[i]] < 256

\* Four upper-case hexadecimal characters.
FourUpperHex(s) == Len(s) = 4 /\ \A i \in 1..4 : s[i] \in UpperHexDigit

\* calculateCRC16 was called on a string by itself.
Checksummed == crcResult # <<>>

\* C12: calculateCRC16 equals the reference CRC-16/CCITT-FALSE (register
\* 0xFFFF at the start, polynomial 0x1021, each character one byte, most
\* significant bit first) for every string of single-byte characters, and
\* its result is always exactly 4 upper-case hexadecimal characters, padded
\* with zeros on the left; the checksum of "123456789" is "29B1" and that
\* of the empty string is "FFFF".  The same holds for the checksum encode
\* appends.
C12_ChecksumIsReference ==
  /\ Checksummed =>
       /\ FourUpperHex(crcResult)
       /\ SingleByte(crcData) => crcResult = RefCrc16(crcData)
       /\ crcData = CheckString => crcResult = <<"2", "9", "B", "1">>
       /\ crcData = <<>> => crcResult = <<"F", "F", "F", "F">>
  /\ changedResult # <<>> =>
       /\ FourUpperHex(changedResult)
       /\ SingleByte(changedData) => changedResult = RefCrc16(changedData)
  /\ encoded.outcome = "returned" /\ decoded.outcome = "not called" =>
       Last4(encoded.ret.s) = RefCrc16(Before4(encoded.ret.s))

\* calculateCRC16 returned a checksum that starts with a zero, for a string
\* with a character above 127.
C12_Witness ==
  /\ Checksummed
  /\ SingleByte(crcData)
  /\ \E i \in 1..Len(crcData) : charCodeAt[crcData[i]] > 127
  /\ crcResult[1] = "0"
  /\ crcResult = RefCrc16(crcData)

\* The two strings checksummed differ in exactly one place.
ChangedOne ==
  /\ changedResult # <<>>
  /\ Len(changedData) = Len(crcData)
  /\ Cardinality({i \in 1..Len(crcData) : changedData[i] # crcData[i]}) = 1

\* decode was called on an encode output with one character of the part
\* before its checksum replaced.
DecodedChanged ==
  /\ origin = "changed"
  /\ decoded.outcome # "not called"
  /\ Len(pixString.s) = Len(encoded.ret.s)
  /\ Last4(pixString.s) = Last4(encoded.ret.s)
  /\ Cardinality({i \in 1..Len(pixString.s) : pixString.s[i] # encoded.ret.s[i]}) = 1

\* C13: two strings of equal length that differ in exactly one character
\* position have different checksums, and decode rejects an encode output
\* in which one character of the part before the checksum was replaced.
C13_Sensitivity ==
  /\ ChangedOne => changedResult # crcResult
  /\ DecodedChanged =>
       ChecksumError(calculateCRC16(Before4(pixString.s)), Last4(pixString.s))

\* The same for characters of one byte only.
SensitivityOnBytes ==
  /\ ChangedOne /\ SingleByte(crcData) /\ SingleByte(changedData) =>
       changedResult # crcResult
  /\ DecodedChanged /\ SingleByte(pixString.s) =>
       ChecksumError(calculateCRC16(Before4(pixString.s)), Last4(pixString.s))

(***************************************************************************)
(* encodeField by itself.                                                  *)
(***************************************************************************)
\* encodeField was called on a field by itself.
FieldEncoded == fieldEncoded # <<>>

\* n written with exactly two decimal digits.
TwoDigits(n) == <<UpperHexChars[1 + (n \div 10)], UpperHexChars[1 + (n % 10)]>>

\* The serialized sub-fields of a nested value: those with an id and a
\* defined value, each as id, length and content.
RECURSIVE Serialized(_)
Serialized(fields) ==
  IF fields = <<>> THEN <<>>
  ELSE (IF Head(fields).id = <<>> \/ Head(fields).value = Undefined THEN <<>>
        ELSE RefTLV(Head(fields))) \o Serialized(Tail(fields))

\* C14: for a two-digit id and a scalar value of n characters, 0 <= n <= 99,
\* encodeField(id, value) is the id, then n as exactly two zero-padded
\* decimal digits, then the value, n + 4 characters in all, so a value of 99
\* characters has the length field "99"; for a composite value the length
\* field is, in the same way, the length of the serialized nested content.
C14_FieldEncoding ==
  FieldEncoded =>
    LET content == IF fieldValue.t = "array" THEN Serialized(fieldValue.a)
                   ELSE fieldValue.s
        n == Len(content)
    IN n <= 99 =>
         /\ fieldEncoded = fieldId \o TwoDigits(n) \o content
         /\ Len(fieldEncoded) = n + 4
         /\ n = 99 => SubSeq(fieldEncoded, 3, 4) = <<"9", "9">>

\* encodeField returned for a scalar value of 99 characters.
C14_Witness ==
  /\ FieldEncoded
  /\ fieldValue.t = "string"
  /\ Len(fieldValue.s) = 99
  /\ SubSeq(fieldEncoded, 3, 4) = <<"9", "9">>

(***************************************************************************)
(* The component.                                                          *)
(***************************************************************************)
\* generatePixCodeFromPaymentData was the latest call on the component.
Generated == last.op = "generatePixCodeFromPaymentData"

\* The payment data has a non-empty key, merchantName and merchantCity.
HasKeyNameCity(data) ==
  /\ data.t = "object"
  /\ data.key \notin {Undefined, Null, Str(<<>>), Num(0)}
  /\ data.merchantName \notin {Undefined, Null, Str(<<>>), Num(0)}
  /\ data.merchantCity \notin {Undefined, Null, Str(<<>>), Num(0)}

\* The five parameters the component hands to createPayment.
FiveParams(data) ==
  [description |-> Undefined, key |-> data.key, merchantName |-> data.merchantName,
   merchantCity |-> data.merchantCity, amount |-> data.amount,
   transactionId |-> data.transactionId]

\* Both calls of the codec returned.
CodecReturned == last.creating.outcome = "returned" /\ last.encoding.outcome = "returned"

\* C15: whenever generatePixCodeFromPaymentData is given payment data with
\* a non-empty key, merchantName and merchantCity (directly, by the setter
\* of paymentData or from connectedCallback) and createPayment and encode
\* both return, then on return pixCode is the string encode returns for the
\* document createPayment returns for {key, merchantName, merchantCity,
\* amount, transactionId}, errorMessage is empty and qrCodeGenerated is
\* false, so that renderedCallback generates the QR code again once the
\* encoder is loaded and showQRCode is set.
C15_GenerationSuccess ==
  (Generated /\ HasKeyNameCity(last.arg) /\ CodecReturned) =>
    LET document == createPayment(FiveParams(last.arg))
    IN /\ errorMessage = <<>>
       /\ ~qrCodeGenerated
       /\ (Truthy(qrCodeLibraryEncode) /\ showQRCode) => ENABLED RenderedCallback("returns")
       /\ pixCode.t = "string"
       /\ last.creating = document
       /\ pixCode = encode(document.ret).ret

\* generatePixCodeFromPaymentData returned a PIX code in place of another
\* whose QR code had been generated.
C15_Witness ==
  /\ Generated
  /\ CodecReturned
  /\ last.before.qrCodeGenerated
  /\ last.before.pixCode # pixCode
  /\ pixCode = last.encoding.ret

CodecThrew == last.creating.outcome = "threw" \/ last.encoding.outcome = "threw"
ThrownMessage ==
  IF last.creating.outcome = "threw" THEN last.creating.message ELSE last.encoding.message

\* C17: when createPayment or encode throws inside
\* generatePixCodeFromPaymentData, the call returns with errorMessage
\* "Failed to generate PIX code: " followed by the message of the error,
\* and with pixCode and qrCodeGenerated as they were before the call.
C17_CodecFailure ==
  (Generated /\ CodecThrew) =>
    /\ errorMessage = <<"F", "a", "i", "l", "e", "d", " ", "t", "o", " ", "g", "e", "n", "e", "r", "a", "t", "e", " ", "P", "I", "X", " ", "c", "o", "d", "e", ":", " ">> \o ThrownMessage
    /\ pixCode = last.before.pixCode
    /\ qrCodeGenerated = last.before.qrCodeGenerated
    /\ last.creating.outcome = "threw" => last.encoding.outcome = "not called"

\* encode threw in generatePixCodeFromPaymentData on a component that had a
\* PIX code whose QR code had been generated.
C17_Witness ==
  /\ Generated
  /\ last.encoding.outcome = "threw"
  /\ last.before.pixCode.t = "string"
  /\ last.before.qrCodeGenerated
  /\ pixCode = last.before.pixCode

\* Some script load has settled and its continuation has not run yet.
LoadSettled == \E i \in 1..Len(loads) : loads[i] \in {"resolved", "empty", "rejected"}

\* The continuation of a load has just run, for a load that failed.
LoadFailed == last.op = "loadQRCodeLibrary" /\ last.via \in {"empty", "rejected"}

StartsWith(s, prefix) == Len(s) >= Len(prefix) /\ SubSeq(s, 1, Len(prefix)) = prefix

\* What holds in every state for the library load: isLoading is true once
\* connectedCallback has started a load; after a load that failed
\* errorMessage starts with the prefix, isLoading is false, the encoder is
\* undefined if the script loaded without window.encodeQR and is what it
\* was if loadScript rejected, and with no encoder renderedCallback
\* generates nothing.
LoadingSafe ==
  /\ (Generated /\ last.via = "connectedCallback") => isLoading
  /\ last.op = "loadQRCodeLibrary" => ~isLoading
  /\ LoadFailed =>
       /\ StartsWith(errorMessage, <<"F", "a", "i", "l", "e", "d", " ", "t", "o", " ", "l", "o", "a", "d", " ", "Q", "R", " ", "c", "o", "d", "e", " ", "l", "i", "b", "r", "a", "r", "y">>)
       /\ last.via = "empty" => qrCodeLibraryEncode = Undefined
       /\ last.via = "rejected" => qrCodeLibraryEncode = last.arg
  /\ ~Truthy(qrCodeLibraryEncode) =>
       ~ENABLED (\E encoder \in {"returns", "throws"} : RenderedCallback(encoder))

\* C18: isLoading is true when loadQRCodeLibrary starts and, once the
\* script load settles, is eventually false whatever the outcome; if
\* loadScript rejects, or resolves without window.encodeQR, then after the
\* attempt errorMessage starts with "Failed to load QR code library" and a
\* failed load with no encoder leaves no encoder, so that renderedCallback
\* generates no QR code.
C18_LibraryLoading == []LoadingSafe /\ (LoadSettled ~> ~isLoading)

\* A load failed by rejection on a component that had no encoder, with a
\* PIX code to show.
C18_Witness ==
  /\ LoadFailed
  /\ last.via = "rejected"
  /\ qrCodeLibraryEncode = Undefined
  /\ ~isLoading
  /\ showQRCode
  /\ pixCode.t = "string"

(***************************************************************************)
(* The scan of decodeFields.                                               *)
(***************************************************************************)
\* decode has scanned the string it was given.
Scanned == DecodedString /\ decoded.outcome = "returned"

\* Where the scan loop of the decoded string was left.
ScanEnd == scanPosition(pixString.s, Int32(0), {})

\* The loop ended with characters remaining at the scan position.
CharactersRemain == NumLess(ScanEnd, Int32(Len(pixString.s)))

\* The loop ran, and its last iteration read into the last 4 characters.
ScanReadTheCrc ==
  /\ ~ScanEnd.nan
  /\ ScanEnd.n # 0
  /\ ScanEnd.n > Len(pixString.s) - 4

\* The terminal field is the last 4 characters of the input.
TerminalIsLast4 ==
  /\ FieldsOf(decoded.ret) # <<>>
  /\ Last(FieldsOf(decoded.ret)).id = <<"6", "3">>
  /\ Last(FieldsOf(decoded.ret)).length = <<"0", "4">>
  /\ Last(FieldsOf(decoded.ret)).value = Str(Last4(pixString.s))

\* C19: whenever the scan loop of decodeFields ends with characters
\* remaining at the scan position, the terminal field appended has id 63,
\* length 04 and the last 4 characters of the input as value; and the loop
\* itself never reads the trailing CRC field.
C19_TerminalField ==
  Scanned =>
    /\ CharactersRemain => TerminalIsLast4
    /\ ~ScanReadTheCrc

\* The two halves of C19, each by itself.
TerminalSynthesis == (Scanned /\ CharactersRemain) => TerminalIsLast4
ScanSparesTheCrc == Scanned => ~ScanReadTheCrc

\* What the code does instead: the synthesized terminal field is empty.
TerminalIsEmpty ==
  (Scanned /\ CharactersRemain) =>
    /\ Last(FieldsOf(decoded.ret)).id = <<"6", "3">>
    /\ Last(FieldsOf(decoded.ret)).length = <<"0", "4">>
    /\ Last(FieldsOf(decoded.ret)).value = Str(<<>>)

\* C20: decodeFields, and so PixCodec.decode, terminates on every input
\* string, checksum-valid strings whose length characters are not two
\* decimal digits included, and produces no more fields than the input has
\* characters.
C20_Termination ==
  DecodedString =>
    /\ decoded.outcome \in {"returned", "threw"}
    /\ decoded.outcome = "returned" => Len(FieldsOf(decoded.ret)) <= Len(pixString.s)

\* Termination where every length read is two decimal digits.
RECURSIVE DigitLengths(_, _, _)
DigitLengths(s, position, seen) ==
  \/ position.nan
  \/ position.n >= Len(s) - 4
  \/ position.n \in seen
  \/ LET length == substr(s, NumAdd(position, Int32(2)), Int32(2))
     IN /\ Len(length) = 2
        /\ \A i \in 1..2 : length[i] \in Digit
        /\ DigitLengths(s, NumAdd(position, NumAdd(Int32(4), parseInt(length))),
                        seen \cup {position.n})

TerminatesOnDigitLengths ==
  (DecodedString /\ DigitLengths(pixString.s, Int32(0), {})) =>
    decoded.outcome \in {"returned", "threw"}

(***************************************************************************)
(* Encoding what decode returned.                                          *)
(***************************************************************************)
\* Every scalar value and every nested content of the fields, at every
\* level, is at most 99 characters long on the wire.
RECURSIVE LengthsFit(_)
LengthsFit(fields) ==
  \A i \in 1..Len(fields) :
    IF fields[i].value.t = "array"
    THEN /\ Len(RefTLVList(fields[i].value.a)) <= MaxFieldLen
         /\ LengthsFit(fields[i].value.a)
    ELSE fields[i].value.t = "string" /\ Len(fields[i].value.s) <= MaxFieldLen

\* createPayment returned a document whose lengths fit, encode returned s
\* for it, and decode was given s.
WireString ==
  /\ RoundTripDone
  /\ LengthsFit(FieldsOf(created.ret))
  /\ pixString = encoded.ret

\* A field of the decoded document carries a description, and its last
\* field is the decoded field 63.
DecodedLabels ==
  /\ \E i \in 1..Len(FieldsOf(decoded.ret)) :
       FieldsOf(decoded.ret)[i].description = "Merchant Name"
  /\ Last(FieldsOf(decoded.ret)).id = CrcId
  /\ Last(FieldsOf(decoded.ret)).value = Str(sliceLast4(pixString.s))

\* C21: for every s = encode(createPayment(p)) with the required parameters
\* and every scalar and nested length at most 99, decode(s) returns, and
\* encode of the document it returns (with its descriptions, its length
\* labels and its field 63) returns s again, CRC included.
C21_Idempotence ==
  WireString =>
    /\ decoded.outcome = "returned"
    /\ reencoded.outcome # "not called" =>
         /\ reencoded.outcome = "returned"
         /\ reencoded.ret = pixString
         /\ sliceLast4(reencoded.ret.s) = sliceLast4(encoded.ret.s)

\* The decoded document of a payment with an amount, a transaction id and
\* a description has been encoded again.
C21_Witness ==
  /\ WireString
  /\ reencoded.outcome = "returned"
  /\ DecodedLabels
  /\ Truthy(params.amount)
  /\ Truthy(params.transactionId)
  /\ Truthy(params.description)

(***************************************************************************)
(* Nested fields through encode and decode.                                *)
(***************************************************************************)
\* A client encoded a document of its own and decoded the string encode
\* returned.
DocumentRoundTrip ==
  /\ created.outcome = "not called"
  /\ encoded.outcome = "returned"
  /\ origin = "encode"
  /\ decoded.outcome = "returned"

\* The fields of the document that encode writes, in order.
Written(field) == HasIdAndValue(field) /\ NotCrcField(field)
WrittenFields == SelectSeq(FieldsOf(pixData), Written)

\* A composite field 26 or 62 whose sub-fields have two-character ids and
\* string values of 0 to 99 characters, at most 99 characters in all.
PlainComposite(field) ==
  /\ field.id \in NestedIds
  /\ field.value.t = "array"
  /\ \A j \in 1..Len(field.value.a) :
       /\ Len(field.value.a[j].id) = 2
       /\ field.value.a[j].value.t = "string"
       /\ Len(field.value.a[j].value.s) <= MaxFieldLen
  /\ Len(RefTLVList(field.value.a)) <= MaxFieldLen

\* The i-th decoded field is the composite field with its sub-fields as
\* they were encoded, and no field 63 among them.
NestedAsEncoded(i) ==
  LET fields == FieldsOf(decoded.ret)
  IN /\ i <= Len(fields)
     /\ fields[i].id = WrittenFields[i].id
     /\ fields[i].value.t = "array"
     /\ SameTree(fields[i].value.a, WrittenFields[i].value.a)
     /\ \A j \in 1..Len(fields[i].value.a) : fields[i].value.a[j].id # CrcId

\* C22: for every composite field 26 or 62 whose sub-fields have two-digit
\* ids and string values of 0 to 99 characters (at most 99 characters in
\* all), decoding the string encode returned gives for the composite the
\* encoded sub-fields, in order, with their ids and values: the nested
\* decodeFields drops no sub-field and inserts no field 63.
C22_NestedFaithful ==
  DocumentRoundTrip =>
    \A i \in 1..Len(WrittenFields) :
      PlainComposite(WrittenFields[i]) => NestedAsEncoded(i)

\* The same where the last sub-field of the composite is not empty and no
\* sub-field has the id of a composite.
LastSubFieldFull(field) ==
  /\ field.value.a # <<>>
  /\ Last(field.value.a).value.s # <<>>
  /\ \A j \in 1..Len(field.value.a) : field.value.a[j].id \notin NestedIds
NestedFaithfulWhenFull ==
  DocumentRoundTrip =>
    \A i \in 1..Len(WrittenFields) :
      (PlainComposite(WrittenFields[i]) /\ LastSubFieldFull(WrittenFields[i]))
        => NestedAsEncoded(i)

(***************************************************************************)
(* The library load and the error of a PIX generation.                     *)
(***************************************************************************)
\* The continuation of a load has just run on a component whose
\* errorMessage reported a failed PIX generation: the latest generation
\* that called the codec failed.
LoadedAfterFailedGeneration ==
  /\ last.op = "loadQRCodeLibrary"
  /\ StartsWith(last.before.errorMessage, GenerateFailedPrefix)

\* C23: in every interleaving of the load started by connectedCallback
\* with the calls of generatePixCodeFromPaymentData, when the latest PIX
\* generation failed and none succeeded since, errorMessage still reports
\* the failure: the settling of the load neither clears nor replaces it.
C23_NoLostError ==
  LoadedAfterFailedGeneration =>
    /\ StartsWith(errorMessage, GenerateFailedPrefix)
    /\ errorMessage = last.before.errorMessage

\* What the code does instead: the load that succeeds clears the message,
\* the load that fails replaces it.
LoadOverwritesError ==
  LoadedAfterFailedGeneration =>
    /\ last.via = "resolved" => errorMessage = <<>>
    /\ last.via \in {"empty", "rejected"} => StartsWith(errorMessage, LoadFailedPrefix)
=============================================================================
